---- MODULE Spec2Model ----
(***************************************************************************)
(* The IPC transport of frontend/src-tauri/src/bridge.rs: BridgeClient     *)
(* turns the stdin/stdout pipes of a child process into a request/response *)
(* channel.  Caller tasks run send_request step by step, one background    *)
(* thread reads the child's stdout (start_reader / handle_message), and    *)
(* shutdown kills the child.  The child and the operating system are the   *)
(* environment: they choose the lines that arrive and when the pipes       *)
(* close.                                                                  *)
(***************************************************************************)
EXTENDS Integers, Sequences, FiniteSets, TLC

(***************************************************************************)
(* Bounds of the model.                                                    *)
(***************************************************************************)
MaxId == 3             \* send_request calls start while the counter can stay <= MaxId
MaxEmits == 1          \* "message" events the child sends over the whole run
MaxShutdowns == 2      \* calls of shutdown() over the whole run

Ids == 1..MaxId        \* ids the counter hands out within the bound

(***************************************************************************)
(* Threads: two caller tasks that run send_request concurrently, and two   *)
(* threads that call shutdown(), concurrently where a specification lets   *)
(* both call; ShutdownThread is the one that lets go of the transport last *)
(* and so runs Drop::drop.  Free is a mutex nobody holds.                  *)
(***************************************************************************)
Tasks == {"t1", "t2"}
ReaderThread == "reader"
ShutdownThread == "shutdown"
ShutdownThreads == {ShutdownThread, "shutdown2"}
Free == "free"

(***************************************************************************)
(* Values.  A field that is missing from a JSON object is Absent.          *)
(***************************************************************************)
Absent == "<absent>"
JsonNull == "null"
BadType == "<not a string>"
NoId == -1
NoOutcome == [tag |-> "None", msg |-> "", detail |-> ""]

Ok(v) == [tag |-> "Ok", msg |-> v, detail |-> ""]
Err(s) == [tag |-> "Err", msg |-> s, detail |-> ""]

MsgNotRunning == "Bridge process is not running. Please restart the application."
MsgStdinNA == "Bridge stdin not available. Please restart the application."
MsgClosed == "Bridge process closed unexpectedly: {}. Please check the bridge service logs and restart the application."

\* format!("Bridge process closed unexpectedly: {}. ...", e)
ErrClosed(e) == [tag |-> "Err", msg |-> MsgClosed, detail |-> e]

(***************************************************************************)
(* The state of the child's input pipe as the operating system sees it:    *)
(* open, or broken with the error every later write and flush reports.     *)
(***************************************************************************)
PipeOpen == "open"
IoErrors == {"Broken pipe (os error 32)"}

\* The pipe holds PipeCapacity units of data; the JSON text of a request
\* takes one unit or more, the "\n" that ends its line takes one.
PipeCapacity == 4
ShortJson == {1}
JsonSizes == {1, 2}

(***************************************************************************)
(* Lines the child can print on its stdout.  A line is the JSON object it  *)
(* carries, field by field; blank is a line that is empty after trim().    *)
(* size tells how the line stands to the 100 bytes that handle_message     *)
(* logs of it: "short" is at most 100 bytes, "long" is more with byte 100  *)
(* at a character boundary, "long_split" is more with byte 100 inside a    *)
(* multi-byte UTF-8 character.                                             *)
(***************************************************************************)
Line(b, i, r, e, ev, d) ==
    [blank |-> b, id |-> i, result |-> r, error |-> e, event |-> ev, data |-> d,
     size |-> "short"]

Long(line, k) == [line EXCEPT !.size = k]

ResponseLines ==
    { Line(FALSE, i, r, e, Absent, Absent) :
        i \in 0..MaxId, r \in {Absent, "r1"}, e \in {Absent, "e1"} }
EventLines ==
    { Line(FALSE, NoId, Absent, Absent, ev, "d1") : ev \in {"ready", "message", "other"} }
OtherLines ==
    { Line(TRUE, NoId, Absent, Absent, Absent, Absent),      \* an empty line
      Line(FALSE, NoId, Absent, Absent, Absent, Absent),     \* not a message
      Line(FALSE, NoId, Absent, Absent, "ready", Absent),    \* event without data
      Line(FALSE, 1, "r1", BadType, Absent, Absent),         \* error is no string
      Line(FALSE, 1, JsonNull, JsonNull, Absent, Absent) }   \* explicit nulls
LongResponses ==
    { Long(Line(FALSE, i, "r1", Absent, Absent, Absent), k) :
        i \in Ids, k \in {"long", "long_split"} }
LongLines ==
    LongResponses \cup
    { Long(l, k) :
        l \in { Line(FALSE, NoId, Absent, Absent, "other", "d1"),     \* an event
                Line(FALSE, NoId, Absent, Absent, "message", "d1"),   \* a message
                Line(FALSE, NoId, Absent, Absent, Absent, Absent) },   \* not a message
        k \in {"long", "long_split"} }
\* lines with the fields of a response and of an event at once: the response
\* is well-formed, or its error is no string
MixedLines ==
    { Line(FALSE, 1, "r1", e, ev, "d1") :
        e \in {Absent, BadType}, ev \in {"ready", "message"} }
Lines == ResponseLines \cup EventLines \cup OtherLines \cup LongLines \cup MixedLines

\* the lines of a child that keeps to the protocol and sends no "message"
CoreLines ==
    { l \in ResponseLines : l.id \in Ids } \cup { l \in EventLines : l.event = "ready" }

VARIABLES
    child,          \* BridgeClient.child: TRUE when Some(Child)
    stdin,          \* BridgeClient.stdin: TRUE when Some(ChildStdin)
    next_id,        \* BridgeClient.next_id
    pending,        \* BridgeClient.pending: id -> the oneshot Sender stored under it
    ready,          \* BridgeClient.ready
    child_lock,     \* holder of the mutex around child
    stdin_lock,     \* holder of the mutex around stdin
    pending_lock,   \* holder of the mutex around pending
    chan,           \* oneshot channels, by the id of the call that created them
    pc,             \* where each caller task is inside send_request
    id,             \* send_request's local `id` of each task (NoId before allocation)
    process_alive,  \* is_alive's local `process_alive` of each task
    outcome,        \* what each task's current call returned
    via,            \* the line from which the reader computed that result
    written,        \* how far the request line of each task's current call has got
                    \* into the child's input pipe: 0 nothing, 1 the JSON text or a
                    \* part of it, 2 the whole line
    unwritten,      \* units of the JSON text `json` that each task's write has
                    \* still to put into the pipe (0 outside the write)
    late,           \* whether each task's current call began after the reader exited
    after_shutdown, \* whether it began after a call of shutdown() had returned
    reader_pc,      \* the stdout reader thread: "reading", "parsed" (a response in
                    \* hand, at the registry mutex), "handling", "closing",
                    \* "exited", or "panicked"
    last_line,      \* the line the reader handled last (NoLine when not recorded)
    shutdown_pc,    \* per thread that calls shutdown(): "idle", "called" (at
                    \* the child mutex), "killing" (inside the `if let`, guard
                    \* held), "killed" (kill() and wait() have returned, guard
                    \* still held); "drop", "drop_killing", "drop_killed",
                    \* "dropped" once Drop::drop has begun
    shutdowns,      \* calls of shutdown() that have returned
    concurrent,     \* the most calls of shutdown() that were in progress at once
    new_pc,         \* BridgeClient::new after the struct literal: "loop", "poll",
                    \* "sleep", and how it returned: "ready", "timeout"
    elapsed,        \* new's `start.elapsed()` in milliseconds (0 once new returned)
    pipe,           \* the child's input pipe: PipeOpen or the error it reports
    wire,           \* the child's input pipe: the units written to it that the
                    \* child has not read yet, oldest first
    partial,        \* the id of the request line of which the child has read a
                    \* part and not yet the newline (NoId between lines)
    kills,          \* times child.kill(); child.wait() ran
    ui,             \* payloads emitted to the frontend on "message-stream"
    issued,         \* ids in the order send_request allocated them
    returned,       \* ids whose send_request call has returned
    removals,       \* per id, how often its entry was removed from pending
    cmd             \* the send_message command: where it is, what launch
                    \* returned to it, what it returned

vars == << child, stdin, next_id, pending, ready,
           child_lock, stdin_lock, pending_lock, chan,
           pc, id, process_alive, outcome, via, written, unwritten, late,
           after_shutdown, reader_pc, last_line, shutdown_pc, shutdowns, concurrent,
           new_pc,
           elapsed, pipe, wire, partial, kills, ui, issued, returned, removals, cmd >>

clientVars == << child, stdin, next_id, pending, ready >>
lockVars == << child_lock, stdin_lock, pending_lock >>
taskVars == << pc, id, process_alive, outcome, via, written, unwritten, late,
              after_shutdown >>
envVars == << pipe, wire, partial, kills, ui >>
histVars == << issued, returned, removals >>
readerVars == << reader_pc, last_line >>
shutVars == << shutdown_pc, shutdowns, concurrent >>
newVars == << new_pc, elapsed >>
ownerVars == << newVars, cmd >>

(***************************************************************************)
(* An empty oneshot channel, and one that holds the value the reader sent  *)
(* together with the line it was computed from.                            *)
(***************************************************************************)
NoLine == Line(TRUE, NoId, Absent, Absent, Absent, Absent)
EmptyChan == [full |-> FALSE, val |-> NoOutcome, line |-> NoLine]
FullChan(v, l) == [full |-> TRUE, val |-> v, line |-> l]

\* BridgeClient::new, the struct literal, with both reader threads started
ClientInit ==
    /\ child = TRUE
    /\ stdin = TRUE
    /\ next_id = 1
    /\ pending = << >>
    /\ ready = FALSE
    /\ child_lock = Free
    /\ stdin_lock = Free
    /\ pending_lock = Free
    /\ chan = [i \in Ids |-> EmptyChan]
    /\ pc = [t \in Tasks |-> "idle"]
    /\ id = [t \in Tasks |-> NoId]
    /\ process_alive = [t \in Tasks |-> FALSE]
    /\ outcome = [t \in Tasks |-> NoOutcome]
    /\ via = [t \in Tasks |-> NoLine]
    /\ written = [t \in Tasks |-> 0]
    /\ unwritten = [t \in Tasks |-> 0]
    /\ late = [t \in Tasks |-> FALSE]
    /\ after_shutdown = [t \in Tasks |-> FALSE]
    /\ reader_pc = "reading"
    /\ last_line = NoLine
    /\ shutdown_pc = [s \in ShutdownThreads |-> "idle"]
    /\ shutdowns = 0
    /\ concurrent = 0
    /\ elapsed = 0
    /\ cmd = [pc |-> "idle", launch |-> NoOutcome, launch_id |-> NoId,
              result |-> NoOutcome]
    /\ pipe = PipeOpen
    /\ wire = << >>
    /\ partial = NoId
    /\ kills = 0
    /\ ui = << >>
    /\ issued = << >>
    /\ returned = {}
    /\ removals = [i \in Ids |-> 0]

\* the transport as new hands it out when the readiness wait ran out: the
\* flag is still false, the reader thread is running
Init == ClientInit /\ new_pc = "timeout"

\* new has built the client and started the readers, and enters its wait
NewInit == ClientInit /\ new_pc = "loop"

(***************************************************************************)
(* serde_json::from_str::<JsonRpcResponse>: id must be a u64; result is    *)
(* any value or missing; error is a string, null or missing.  Unknown      *)
(* fields are ignored.  An Option field that is null or missing is None.   *)
(***************************************************************************)
None == Absent
OptionOf(field) == IF field = JsonNull THEN None ELSE field

ParsesAsResponse(line) ==
    /\ ~line.blank
    /\ line.id >= 0
    /\ line.error # BadType

ParseResponse(line) ==
    [id |-> line.id, result |-> OptionOf(line.result), error |-> OptionOf(line.error)]

\* serde_json::from_str::<JsonRpcEvent>: event and data are both required.
ParsesAsEvent(line) ==
    /\ ~line.blank
    /\ line.event # Absent
    /\ line.data # Absent

\* mutant of ResponseResult: a result, when present, wins over the error
ResponseResultPrefersResult(response) ==
    IF response.result # None
    THEN Ok(response.result)
    ELSE IF response.error # None THEN Err(response.error) ELSE Ok(JsonNull)

\* handle_message: `if let Some(error) = response.error { Err(error) } else
\* { Ok(response.result.unwrap_or(Value::Null)) }`
ResponseResult(response) ==
    IF response.error # None
    THEN Err(response.error)
    ELSE Ok(IF response.result = None THEN JsonNull ELSE response.result)

(***************************************************************************)
(* The Pending Registry, a HashMap<u64, oneshot::Sender>.  A Sender is     *)
(* named by the channel it belongs to.                                     *)
(***************************************************************************)
PendingInsert(p, key, tx) ==
    [k \in DOMAIN p \cup {key} |-> IF k = key THEN tx ELSE p[k]]

PendingRemove(p, key) == [k \in DOMAIN p \ {key} |-> p[k]]

\* mutant of LookupKey: the oldest pending request is taken, whatever the id
LookupKeyOldest(p, response) ==
    IF DOMAIN p = {}
    THEN response.id
    ELSE CHOOSE k \in DOMAIN p : \A j \in DOMAIN p : k <= j

\* the key handle_message looks up for a response: `pending_map.remove(&response.id)`
LookupKey(p, response) == response.id

\* mutant of IsAlive: the readiness flag is not consulted
IsAliveIgnoresReady(pa, is_ready) == pa

\* the result of is_alive(): `process_alive && is_ready`
IsAlive(pa, is_ready) == pa /\ is_ready

\* mutant of NextIdAfter: the counter is not advanced
NextIdNotAdvanced(n) == n

\* mutant of AllocatedId: the id is read after the counter was advanced
AllocatedIdAfterIncrement(n) == n + 1

\* send_request: `let id = *next_id; *next_id += 1;`
AllocatedId(n) == n
NextIdAfter(n) == n + 1

(***************************************************************************)
(* send_request, one caller task t.                                        *)
(***************************************************************************)
\* a return of send_request; the Receiver `rx`, if created, is dropped
Return(t, result) ==
    /\ pc' = [pc EXCEPT ![t] = "done"]
    /\ outcome' = [outcome EXCEPT ![t] = result]
    /\ returned' = IF id[t] = NoId THEN returned ELSE returned \cup {id[t]}
    /\ chan' = IF id[t] = NoId THEN chan ELSE [chan EXCEPT ![id[t]] = EmptyChan]

\* calls that have entered send_request and not yet taken an id
PreAlloc == {"alive_child", "alive_stdin", "alive_ready", "alloc"}

\* the calls of shutdown() in progress
ShutdownsInFlight == { s \in ShutdownThreads : shutdown_pc[s] \notin {"idle", "dropped"} }

\* Drop::drop has begun: the last owner let go of the transport
Dropping ==
    shutdown_pc[ShutdownThread] \in {"drop", "drop_killing", "drop_killed", "dropped"}

\* send_request is entered; what its caller does is left open
SendRequestEnter(t) ==
    /\ pc[t] \in {"idle", "done"}
    /\ ~Dropping
    /\ next_id + Cardinality({u \in Tasks : pc[u] \in PreAlloc}) <= MaxId
    /\ pc' = [pc EXCEPT ![t] = "alive_child"]
    /\ id' = [id EXCEPT ![t] = NoId]
    /\ process_alive' = [process_alive EXCEPT ![t] = FALSE]
    /\ outcome' = [outcome EXCEPT ![t] = NoOutcome]
    /\ via' = [via EXCEPT ![t] = NoLine]
    /\ written' = [written EXCEPT ![t] = 0]
    /\ unwritten' = [unwritten EXCEPT ![t] = 0]
    /\ late' = [late EXCEPT ![t] = (reader_pc = "exited")]
    /\ after_shutdown' = [after_shutdown EXCEPT ![t] = (shutdowns > 0)]
    /\ UNCHANGED << clientVars, lockVars, chan, readerVars, shutVars, envVars,
                    histVars >>

\* a caller enters send_request
SendRequestStart(t) == SendRequestEnter(t) /\ UNCHANGED ownerVars

\* mutant of IsAliveLockChild: is_alive looks at the stdin handle only
IsAliveLockChildSkipsChild(t) ==
    /\ pc[t] = "alive_child"
    /\ child_lock = Free
    /\ child_lock' = t
    /\ pc' = [pc EXCEPT ![t] = "alive_stdin"]
    /\ UNCHANGED << clientVars, stdin_lock, pending_lock, chan, id, process_alive, outcome, via,
                    written, unwritten, late, after_shutdown, readerVars, shutVars, ownerVars,
                    envVars, histVars >>

\* is_alive: `let child_guard = self.child.lock().unwrap();`
IsAliveLockChild(t) ==
    /\ pc[t] = "alive_child"
    /\ child_lock = Free
    /\ IF child
       THEN /\ child_lock' = t
            /\ pc' = [pc EXCEPT ![t] = "alive_stdin"]
            /\ UNCHANGED process_alive
       ELSE /\ child_lock' = Free
            /\ process_alive' = [process_alive EXCEPT ![t] = FALSE]
            /\ pc' = [pc EXCEPT ![t] = "alive_ready"]
    /\ UNCHANGED << clientVars, stdin_lock, pending_lock, chan, id, outcome, via, written, unwritten, late,
                    after_shutdown, readerVars, shutVars, ownerVars, envVars, histVars >>

\* is_alive: `self.stdin.lock().unwrap().is_some()`, then both guards drop
IsAliveLockStdin(t) ==
    /\ pc[t] = "alive_stdin"
    /\ stdin_lock = Free
    /\ process_alive' = [process_alive EXCEPT ![t] = stdin]
    /\ child_lock' = Free
    /\ pc' = [pc EXCEPT ![t] = "alive_ready"]
    /\ UNCHANGED << clientVars, stdin_lock, pending_lock, chan, id, outcome, via, written, unwritten, late,
                    after_shutdown, readerVars, shutVars, ownerVars, envVars, histVars >>

\* mutant of IsAliveCheck: the id is taken before the liveness check, so a
\* failed check has consumed one
IsAliveCheckConsumesId(t) ==
    /\ pc[t] = "alive_ready"
    /\ IF IsAlive(process_alive[t], ready)
       THEN /\ pc' = [pc EXCEPT ![t] = "alloc"]
            /\ UNCHANGED << outcome, returned, chan, next_id >>
       ELSE /\ Return(t, Err(MsgNotRunning))
            /\ next_id' = next_id + 1
    /\ UNCHANGED << child, stdin, pending, ready, lockVars, id, process_alive, via,
                    written, unwritten, late, after_shutdown, readerVars, shutVars, ownerVars,
                    envVars, issued, removals >>

\* is_alive: `let is_ready = *self.ready.lock().unwrap();` and the caller's
\* `if !self.is_alive() { return Err(...) }`
IsAliveCheck(t) ==
    /\ pc[t] = "alive_ready"
    /\ IF IsAlive(process_alive[t], ready)
       THEN /\ pc' = [pc EXCEPT ![t] = "alloc"]
            /\ UNCHANGED << outcome, returned, chan >>
       ELSE Return(t, Err(MsgNotRunning))
    /\ UNCHANGED << clientVars, lockVars, id, process_alive, via, written, unwritten, late,
                    after_shutdown, readerVars, shutVars, ownerVars, envVars, issued,
                    removals >>

\* `let id = { let mut next_id = self.next_id.lock().unwrap(); ... }`
AllocateId(t) ==
    /\ pc[t] = "alloc"
    /\ id' = [id EXCEPT ![t] = AllocatedId(next_id)]
    /\ next_id' = NextIdAfter(next_id)
    /\ issued' = Append(issued, AllocatedId(next_id))
    /\ pc' = [pc EXCEPT ![t] = "register"]
    /\ UNCHANGED << child, stdin, pending, ready, lockVars, chan, process_alive,
                    outcome, via, written, unwritten, late, after_shutdown, readerVars, shutVars,
                    ownerVars, envVars, returned, removals >>

\* mutant of RegisterPending: the entry is not registered ahead of the write
RegisterPendingDeferred(t) ==
    /\ pc[t] = "register"
    /\ pc' = [pc EXCEPT ![t] = "send"]
    /\ UNCHANGED << clientVars, lockVars, chan, id, process_alive, outcome, via,
                    written, unwritten, late, after_shutdown, readerVars, shutVars, ownerVars,
                    envVars, histVars >>

\* `let (tx, rx) = oneshot::channel(); pending.insert(id, tx);`
RegisterPending(t) ==
    /\ pc[t] = "register"
    /\ pending_lock = Free
    /\ pending' = PendingInsert(pending, id[t], id[t])
    /\ pc' = [pc EXCEPT ![t] = "send"]
    /\ UNCHANGED << child, stdin, next_id, ready, lockVars, chan, id, process_alive,
                    outcome, via, written, unwritten, late, after_shutdown, readerVars, shutVars,
                    ownerVars, envVars, histVars >>

\* mutant of SendLockStdin: the write goes ahead without waiting for the lock
SendLockStdinNoWait(t, n) ==
    /\ pc[t] = "send"
    /\ IF stdin
       THEN /\ stdin_lock' = t
            /\ unwritten' = [unwritten EXCEPT ![t] = n]
            /\ pc' = [pc EXCEPT ![t] = "write_json"]
            /\ UNCHANGED << outcome, returned, chan >>
       ELSE /\ stdin_lock' = Free
            /\ Return(t, Err(MsgStdinNA))
            /\ UNCHANGED unwritten
    /\ UNCHANGED << clientVars, child_lock, pending_lock, id, process_alive, via, written,
                    late, after_shutdown, readerVars, shutVars, ownerVars, envVars,
                    issued, removals >>

\* mutant of SendLockStdin: with the handle absent the call goes on to wait
\* for its response
SendLockStdinSuspendsOnNone(t, n) ==
    /\ pc[t] = "send"
    /\ stdin_lock = Free
    /\ IF stdin
       THEN /\ stdin_lock' = t
            /\ unwritten' = [unwritten EXCEPT ![t] = n]
            /\ pc' = [pc EXCEPT ![t] = "write_json"]
       ELSE /\ stdin_lock' = Free
            /\ pc' = [pc EXCEPT ![t] = "await"]
            /\ UNCHANGED unwritten
    /\ UNCHANGED << clientVars, child_lock, pending_lock, chan, id, process_alive, outcome,
                    via, written, late, after_shutdown, readerVars, shutVars, ownerVars,
                    envVars, histVars >>

\* `let mut stdin = self.stdin.lock().unwrap(); if let Some(stdin) = ...`
\* and `let json = serde_json::to_string(&request)`, a text of n units: the
\* method and the params of the call decide its length; with the else
\* branch that returns "stdin not available"
SendLockStdin(t, n) ==
    /\ pc[t] = "send"
    /\ stdin_lock = Free
    /\ IF stdin
       THEN /\ stdin_lock' = t
            /\ unwritten' = [unwritten EXCEPT ![t] = n]
            /\ pc' = [pc EXCEPT ![t] = "write_json"]
            /\ UNCHANGED << outcome, returned, chan >>
       ELSE /\ stdin_lock' = Free
            /\ Return(t, Err(MsgStdinNA))
            /\ UNCHANGED unwritten
    /\ UNCHANGED << clientVars, child_lock, pending_lock, id, process_alive, via, written,
                    late, after_shutdown, readerVars, shutVars, ownerVars, envVars,
                    issued, removals >>

\* The space left in the pipe, and the pipe after n units of chunk c were
\* written to it.  What is written stays in the pipe until the child reads.
PipeFree(w) == PipeCapacity - Len(w)

PipeWrite(w, c, n) == w \o [k \in 1..n |-> c]

Min(a, b) == IF a < b THEN a ELSE b

\* writeln!(stdin, "{}", json): write_fmt writes the JSON text, then "\n",
\* each with write_all on the blocking pipe.  A write waits while the pipe
\* is full, with the stdin guard held; it puts in what fits and goes on
\* when the child has read.  `left` is what the chunk still has to write.
\* A write to a broken pipe fails and takes the Err(e) arm.
WriteChunk(t, from, chunk, left, to) ==
    /\ pc[t] = from
    /\ IF pipe = PipeOpen
       THEN /\ PipeFree(wire) > 0
            /\ LET n == Min(left, PipeFree(wire))
               IN  /\ wire' = PipeWrite(wire, << id[t], chunk >>, n)
                   /\ unwritten' = [unwritten EXCEPT ![t] =
                                        IF chunk = "json" THEN left - n ELSE @]
                   /\ written' = [written EXCEPT ![t] = IF chunk = "json" THEN 1 ELSE 2]
                   /\ pc' = [pc EXCEPT ![t] = IF n = left THEN to ELSE from]
       ELSE /\ UNCHANGED << wire, written >>
            /\ unwritten' = [unwritten EXCEPT ![t] = 0]
            /\ pc' = [pc EXCEPT ![t] = "write_failed"]
    /\ UNCHANGED << clientVars, lockVars, chan, id, process_alive, outcome, via, late,
                    after_shutdown, readerVars, shutVars, ownerVars, pipe, partial,
                    kills, ui, histVars >>

WriteJson(t) == WriteChunk(t, "write_json", "json", unwritten[t], "write_newline")

WriteNewline(t) == WriteChunk(t, "write_newline", "newline", 1, "flush")

\* `stdin.flush()`: flush of a ChildStdin does nothing and returns Ok(()),
\* whatever the state of the pipe, so its Err(e) arm is never taken; the
\* block ends and the stdin guard drops
Flush(t) ==
    /\ pc[t] = "flush"
    /\ stdin_lock' = Free
    /\ pc' = [pc EXCEPT ![t] = "await"]
    /\ UNCHANGED << clientVars, child_lock, pending_lock, chan, id, process_alive, outcome,
                    via, written, unwritten, late, after_shutdown, readerVars, shutVars,
                    ownerVars, envVars, histVars >>

\* mutant of SendIoError: the pending entry is left behind
SendIoErrorKeepsEntry(t) ==
    /\ pc[t] = "write_failed"
    /\ stdin_lock' = Free
    /\ Return(t, ErrClosed(pipe))
    /\ UNCHANGED << clientVars, child_lock, pending_lock, id, process_alive, via, written, unwritten, late,
                    after_shutdown, readerVars, shutVars, ownerVars, envVars, issued,
                    removals >>

\* the Err(e) arm of the write:
\* `self.pending.lock().unwrap().remove(&id); return Err(format!(...))`
\* and the stdin guard drops
SendIoError(t) ==
    /\ pc[t] = "write_failed"
    /\ pending_lock = Free
    /\ pending' = PendingRemove(pending, id[t])
    /\ removals' = [removals EXCEPT ![id[t]] =
                        IF id[t] \in DOMAIN pending THEN @ + 1 ELSE @]
    /\ stdin_lock' = Free
    /\ Return(t, ErrClosed(pipe))
    /\ UNCHANGED << child, stdin, next_id, ready, child_lock, pending_lock, id, process_alive, via,
                    written, unwritten, late, after_shutdown, readerVars, shutVars, ownerVars,
                    envVars, issued >>

\* mutant of AwaitResponse: the channel is polled once instead of awaited
AwaitResponseNoWait(t) ==
    /\ pc[t] = "await"
    /\ Return(t, chan[id[t]].val)
    /\ via' = [via EXCEPT ![t] = chan[id[t]].line]
    /\ UNCHANGED << clientVars, lockVars, id, process_alive, written, unwritten, late,
                    after_shutdown, readerVars, shutVars, ownerVars, envVars, issued,
                    removals >>

\* `let result = rx.await.map_err(|_| "Request cancelled".to_string())?; result`
\* The Sender stays in `pending` until it is used or the call has returned,
\* so the await never sees it dropped unused.
AwaitResponse(t) ==
    /\ pc[t] = "await"
    /\ chan[id[t]].full
    /\ Return(t, chan[id[t]].val)
    /\ via' = [via EXCEPT ![t] = chan[id[t]].line]
    /\ UNCHANGED << clientVars, lockVars, id, process_alive, written, unwritten, late,
                    after_shutdown, readerVars, shutVars, ownerVars, envVars, issued,
                    removals >>

\* The caller drops the future of send_request at its one suspension point,
\* `rx.await` (its task is cancelled or loses a select!): the Receiver is
\* dropped with it, the entry stays in `pending`, and the call never returns.
Abandon(t) ==
    /\ pc[t] = "await"
    /\ pc' = [pc EXCEPT ![t] = "abandoned"]
    /\ chan' = [chan EXCEPT ![id[t]] = EmptyChan]
    /\ UNCHANGED << clientVars, lockVars, id, process_alive, outcome, via, written, unwritten,
                    late, after_shutdown, readerVars, shutVars, ownerVars, envVars,
                    histVars >>

\* the steps of a call that has been entered, for requests whose JSON text
\* has one of the given lengths
SendRequestStepsOf(t, lengths) ==
    \/ IsAliveLockChild(t)
    \/ IsAliveLockStdin(t)
    \/ IsAliveCheck(t)
    \/ AllocateId(t)
    \/ RegisterPending(t)
    \/ \E n \in lengths : SendLockStdin(t, n)
    \/ WriteJson(t)
    \/ WriteNewline(t)
    \/ Flush(t)
    \/ SendIoError(t)
    \/ AwaitResponse(t)

\* calls with short requests
SendRequestSteps(t) == SendRequestStepsOf(t, ShortJson)

SendRequest(t) == SendRequestStart(t) \/ SendRequestSteps(t)

\* calls with requests of every length
SendRequestAnyLength(t) == SendRequestStart(t) \/ SendRequestStepsOf(t, JsonSizes)

(***************************************************************************)
(* The stdout reader thread.                                               *)
(***************************************************************************)
\* oneshot Sender::send: the value is stored unless the Receiver is gone
\* (the call that owned it has returned or was abandoned); `let _ =` ignores
\* the failure.
ReceiverGone(tx) ==
    tx \in returned \/ \E t \in Tasks : pc[t] = "abandoned" /\ id[t] = tx

OneshotSend(c, tx, v, line) ==
    IF ReceiverGone(tx) THEN c ELSE [c EXCEPT ![tx] = FullChan(v, line)]

\* mutant of HandleResponse: the entry is looked up and left in the registry
HandleResponseKeepsEntry(line) ==
    LET response == ParseResponse(line)
        key == LookupKey(pending, response)
    IN  /\ IF key \in DOMAIN pending
           THEN /\ chan' = OneshotSend(chan, pending[key], ResponseResult(response), line)
                /\ UNCHANGED << pending, removals >>
           ELSE UNCHANGED << pending, removals, chan >>
        /\ UNCHANGED << ready, ui >>

\* handle_message, the response branch
HandleResponse(line) ==
    LET response == ParseResponse(line)
        key == LookupKey(pending, response)
    IN  /\ IF key \in DOMAIN pending
           THEN /\ pending' = PendingRemove(pending, key)
                /\ removals' = [removals EXCEPT ![key] = @ + 1]
                /\ chan' = OneshotSend(chan, pending[key], ResponseResult(response), line)
           ELSE UNCHANGED << pending, removals, chan >>
        /\ UNCHANGED << ready, ui >>

\* `app_handle.emit("message-stream", event.data)`: when emit returns Ok the
\* UI sink has the payload, under its channel, after what it had; when emit
\* returns Err the sink has nothing new
MessageStream == "message-stream"

Emit(u, channel, data, ok) ==
    IF ok THEN Append(u, [channel |-> channel, payload |-> data]) ELSE u

\* mutant of HandleEvent: an event of an unknown name is forwarded as well
HandleEventForwardsAll(line) ==
    /\ CASE line.event = "ready" -> ready' = TRUE /\ ui' = ui
         [] OTHER -> ui' = Emit(ui, MessageStream, line.data, TRUE) /\ ready' = ready
    /\ UNCHANGED << pending, removals, chan >>

\* mutant of HandleEvent: an event of any name marks the bridge ready
HandleEventAnyNameReady(line) ==
    /\ CASE line.event = "message" ->
                ui' = Emit(ui, MessageStream, line.data, TRUE) /\ ready' = TRUE
         [] OTHER -> ready' = TRUE /\ ui' = ui
    /\ UNCHANGED << pending, removals, chan >>

\* handle_message, the event branch.  emit's Err is printed and nothing else.
HandleEvent(line) ==
    /\ CASE line.event = "ready" -> ready' = TRUE /\ ui' = ui
         [] line.event = "message" ->
                /\ \E ok \in BOOLEAN : ui' = Emit(ui, MessageStream, line.data, ok)
                /\ ready' = ready
         [] OTHER -> UNCHANGED << ready, ui >>
    /\ UNCHANGED << pending, removals, chan >>

\* handle_message's first statement logs `if line.len() > 100 { &line[..100] }
\* else { line }`: slicing a str at a byte that is no character boundary
\* panics
SlicePanics(line) == line.size = "long_split"

\* handle_message: the log line, then response first, then event, else
\* "Unknown message format".  A panic unwinds the reader thread: the rest
\* of handle_message and of the thread's closure does not run.
HandleMessage(line) ==
    IF SlicePanics(line)
    THEN /\ reader_pc' = "panicked"
         /\ UNCHANGED << pending, removals, chan, ready, ui >>
    ELSE /\ reader_pc' = reader_pc
         /\ IF ParsesAsResponse(line)
            THEN HandleResponse(line)
            ELSE IF ParsesAsEvent(line)
                 THEN HandleEvent(line)
                 ELSE UNCHANGED << pending, removals, chan, ready, ui >>

\* the lines for which handle_message locks the registry
TakesPendingLock(line) ==
    ~line.blank /\ ~SlicePanics(line) /\ ParsesAsResponse(line)

\* what the child can print next
Printable(line) ==
    (ParsesAsEvent(line) /\ ~ParsesAsResponse(line) /\ line.event = "message")
        => Len(ui) < MaxEmits

\* one turn of `for line in reader.lines()` with Ok(line); `seen` is what
\* the history keeps of it
ReaderStep(line, seen) ==
    /\ reader_pc = "reading"
    /\ Printable(line)
    /\ TakesPendingLock(line) => pending_lock = Free
    /\ IF line.blank
       THEN UNCHANGED << pending, removals, chan, ready, ui, reader_pc >>
       ELSE HandleMessage(line)
    /\ last_line' = seen
    /\ UNCHANGED << child, stdin, next_id, lockVars, taskVars, shutVars, ownerVars,
                    pipe, wire, partial, kills, issued, returned >>

\* a turn of the loop of which the history keeps nothing
ReaderLine(line) == ReaderStep(line, last_line)

\* a turn of the loop of which the history keeps the line
ReaderLineSeen(line) == ReaderStep(line, line)

\* the loop ends: lines() is exhausted (EOF) or yields Err(e) and breaks
ReaderEnd ==
    /\ reader_pc = "reading"
    /\ reader_pc' = "closing"
    /\ UNCHANGED << last_line, clientVars, lockVars, chan, taskVars, shutVars, ownerVars,
                    envVars, histVars >>

\* mutant of ReaderClearStdin: the thread exits without clearing the handle
ReaderExitKeepsStdin ==
    /\ reader_pc = "closing"
    /\ stdin_lock = Free
    /\ reader_pc' = "exited"
    /\ UNCHANGED << last_line, clientVars, lockVars, chan, taskVars, shutVars, ownerVars,
                    envVars, histVars >>

\* mutant of ReaderClearStdin: the exiting reader also empties the registry
ReaderClearStdinDrainsPending ==
    /\ reader_pc = "closing"
    /\ stdin_lock = Free
    /\ stdin' = FALSE
    /\ pending' = << >>
    /\ reader_pc' = "exited"
    /\ UNCHANGED << last_line, child, next_id, ready, lockVars, chan, taskVars,
                    shutVars, ownerVars, envVars, histVars >>

\* `let mut stdin_guard = stdin_ref.lock().unwrap(); *stdin_guard = None;`
ReaderClearStdin ==
    /\ reader_pc = "closing"
    /\ stdin_lock = Free
    /\ stdin' = FALSE
    /\ reader_pc' = "exited"
    /\ UNCHANGED << last_line, child, next_id, pending, ready, lockVars, chan, taskVars,
                    shutVars, ownerVars, envVars, histVars >>

(***************************************************************************)
(* The critical sections of the registry mutex, a step at a time: the      *)
(* lock is taken in one step and the section runs in the next, so that a   *)
(* thread can be seen holding it, and the reader is seen with a response   *)
(* in hand before it asks for the lock.  RegisterPending, SendIoError and  *)
(* the reader's turn on a response line are these steps in one.  The       *)
(* mutexes of next_id and ready are each taken alone, for one statement,   *)
(* by a thread that holds no other lock.                                   *)
(***************************************************************************)
\* `let mut pending = self.pending.lock().unwrap();`
RegisterLock(t) ==
    /\ pc[t] = "register"
    /\ pending_lock = Free
    /\ pending_lock' = t
    /\ pc' = [pc EXCEPT ![t] = "register_locked"]
    /\ UNCHANGED << clientVars, child_lock, stdin_lock, chan, id, process_alive, outcome,
                    via, written, unwritten, late, after_shutdown, readerVars, shutVars, ownerVars,
                    envVars, histVars >>

\* `pending.insert(id, tx);` and the guard drops at the end of the block
RegisterInsert(t) ==
    /\ pc[t] = "register_locked"
    /\ pending' = PendingInsert(pending, id[t], id[t])
    /\ pending_lock' = Free
    /\ pc' = [pc EXCEPT ![t] = "send"]
    /\ UNCHANGED << child, stdin, next_id, ready, child_lock, stdin_lock, chan, id,
                    process_alive, outcome, via, written, unwritten, late, after_shutdown,
                    readerVars, shutVars, ownerVars, envVars, histVars >>

\* `self.pending.lock().unwrap()` in the Err(e) arm of the write: the stdin
\* guard is still held
SendIoErrorLock(t) ==
    /\ pc[t] = "write_failed"
    /\ pending_lock = Free
    /\ pending_lock' = t
    /\ pc' = [pc EXCEPT ![t] = "io_remove"]
    /\ UNCHANGED << clientVars, child_lock, stdin_lock, chan, id, process_alive, outcome,
                    via, written, unwritten, late, after_shutdown, readerVars, shutVars, ownerVars,
                    envVars, histVars >>

\* `.remove(&id); return Err(format!(...))`: the temporary guard of the
\* registry drops at the end of the statement, the stdin guard at the return
SendIoErrorRemove(t) ==
    /\ pc[t] = "io_remove"
    /\ pending' = PendingRemove(pending, id[t])
    /\ removals' = [removals EXCEPT ![id[t]] =
                        IF id[t] \in DOMAIN pending THEN @ + 1 ELSE @]
    /\ pending_lock' = Free
    /\ stdin_lock' = Free
    /\ Return(t, ErrClosed(pipe))
    /\ UNCHANGED << child, stdin, next_id, ready, child_lock, id, process_alive, via,
                    written, unwritten, late, after_shutdown, readerVars, shutVars, ownerVars,
                    envVars, issued >>

\* send_request with the registry mutex taken step by step
SendRequestByStep(t) ==
    \/ SendRequestStart(t)
    \/ IsAliveLockChild(t)
    \/ IsAliveLockStdin(t)
    \/ IsAliveCheck(t)
    \/ AllocateId(t)
    \/ RegisterLock(t)
    \/ RegisterInsert(t)
    \/ \E n \in JsonSizes : SendLockStdin(t, n)
    \/ WriteJson(t)
    \/ WriteNewline(t)
    \/ Flush(t)
    \/ SendIoErrorLock(t)
    \/ SendIoErrorRemove(t)
    \/ AwaitResponse(t)

\* a turn of the loop takes a line that handle_message parses as a
\* response: the reader stands at `pending.lock()`; last_line is the line in
\* hand
ReaderParse(line) ==
    /\ reader_pc = "reading"
    /\ TakesPendingLock(line)
    /\ reader_pc' = "parsed"
    /\ last_line' = line
    /\ UNCHANGED << clientVars, lockVars, chan, taskVars, shutVars, ownerVars, envVars,
                    histVars >>

\* `let mut pending_map = pending.lock().unwrap();`
ReaderLockPending ==
    /\ reader_pc = "parsed"
    /\ pending_lock = Free
    /\ pending_lock' = ReaderThread
    /\ reader_pc' = "handling"
    /\ UNCHANGED << last_line, clientVars, child_lock, stdin_lock, chan, taskVars,
                    shutVars, ownerVars, envVars, histVars >>

\* mutant of ReaderHandleLocked: the guard of the registry outlives the call
ReaderHandleKeepsLock ==
    /\ reader_pc = "handling"
    /\ HandleResponse(last_line)
    /\ reader_pc' = "reading"
    /\ last_line' = NoLine
    /\ UNCHANGED << child, stdin, next_id, lockVars, taskVars, shutVars, ownerVars,
                    pipe, wire, partial, kills, issued, returned >>

\* the rest of the response branch, to `return Ok(())` where the guard
\* drops; the line in hand is let go
ReaderHandleLocked ==
    /\ reader_pc = "handling"
    /\ HandleResponse(last_line)
    /\ pending_lock' = Free
    /\ reader_pc' = "reading"
    /\ last_line' = NoLine
    /\ UNCHANGED << child, stdin, next_id, child_lock, stdin_lock, taskVars, shutVars,
                    ownerVars, pipe, wire, partial, kills, issued, returned >>

\* the lines of the child in LockSpec: a response to each id, and "ready"
LockResponses == { Line(FALSE, i, "r1", Absent, Absent, Absent) : i \in Ids }

ReadyLine == Line(FALSE, NoId, Absent, Absent, "ready", "d1")

\* the reader thread, a step at a time
ReaderByStep ==
    \/ \E line \in LockResponses : ReaderParse(line)
    \/ ReaderLockPending
    \/ ReaderHandleLocked
    \/ ReaderLine(ReadyLine)
    \/ ReaderEnd
    \/ ReaderClearStdin

(***************************************************************************)
(* shutdown(): a call stands at `self.child.lock()` until it gets the      *)
(* mutex.  The guard lives to the end of the `if let`, so kill() and       *)
(* wait() run with the child mutex held.  shutdown(&self) can be called by *)
(* any thread that holds a reference to the transport, also while another  *)
(* call is in progress.                                                    *)
(***************************************************************************)
\* shutdown() is called by thread s: "shutdown() called" is printed and the
\* call is at `self.child.lock()`
ShutdownCall(s) ==
    /\ shutdown_pc[s] = "idle"
    /\ ~Dropping
    /\ shutdowns + Cardinality(ShutdownsInFlight) < MaxShutdowns
    /\ shutdown_pc' = [shutdown_pc EXCEPT ![s] = "called"]
    /\ concurrent' = IF Cardinality(ShutdownsInFlight) + 1 > concurrent
                     THEN Cardinality(ShutdownsInFlight) + 1 ELSE concurrent
    /\ UNCHANGED << clientVars, lockVars, chan, taskVars, readerVars, shutdowns,
                    ownerVars, envVars, histVars >>

\* mutant of ShutdownTake: the handle is borrowed (as_mut) instead of taken
ShutdownTakeKeepsChild(s) ==
    /\ shutdown_pc[s] \in {"called", "drop"}
    /\ child_lock = Free
    /\ IF child
       THEN /\ child_lock' = s
            /\ shutdown_pc' = [shutdown_pc EXCEPT
                    ![s] = IF @ = "drop" THEN "drop_killing" ELSE "killing"]
            /\ UNCHANGED << child, shutdowns >>
       ELSE /\ shutdowns' = shutdowns + 1
            /\ shutdown_pc' = [shutdown_pc EXCEPT
                    ![s] = IF @ = "drop" THEN "dropped" ELSE "idle"]
            /\ UNCHANGED << child, child_lock >>
    /\ UNCHANGED << stdin, next_id, pending, ready, stdin_lock, pending_lock, chan,
                    taskVars, readerVars, concurrent, ownerVars, envVars, histVars >>

\* mutant of ShutdownTake: the handle is looked at under the child mutex and
\* taken under a second hold of it, so kill() and wait() run without the
\* mutex and a call that came in between finds the handle still there
ShutdownTakeDropsGuard(s) ==
    /\ shutdown_pc[s] \in {"called", "drop"}
    /\ child_lock = Free
    /\ IF child \/ \E u \in ShutdownThreads : shutdown_pc[u] \in {"killing", "drop_killing"}
       THEN /\ child' = FALSE
            /\ shutdown_pc' = [shutdown_pc EXCEPT
                    ![s] = IF @ = "drop" THEN "drop_killing" ELSE "killing"]
            /\ UNCHANGED << child_lock, shutdowns >>
       ELSE /\ shutdowns' = shutdowns + 1
            /\ shutdown_pc' = [shutdown_pc EXCEPT
                    ![s] = IF @ = "drop" THEN "dropped" ELSE "idle"]
            /\ UNCHANGED << child, child_lock >>
    /\ UNCHANGED << stdin, next_id, pending, ready, stdin_lock, pending_lock, chan,
                    taskVars, readerVars, concurrent, ownerVars, envVars, histVars >>

\* `if let Some(mut child) = self.child.lock().unwrap().take()` in the call
\* of thread s, and the else branch, in which shutdown returns at once
ShutdownTake(s) ==
    /\ shutdown_pc[s] \in {"called", "drop"}
    /\ child_lock = Free
    /\ IF child
       THEN /\ child' = FALSE
            /\ child_lock' = s
            /\ shutdown_pc' = [shutdown_pc EXCEPT
                    ![s] = IF @ = "drop" THEN "drop_killing" ELSE "killing"]
            /\ UNCHANGED shutdowns
       ELSE /\ shutdowns' = shutdowns + 1
            /\ shutdown_pc' = [shutdown_pc EXCEPT
                    ![s] = IF @ = "drop" THEN "dropped" ELSE "idle"]
            /\ UNCHANGED << child, child_lock >>
    /\ UNCHANGED << stdin, next_id, pending, ready, stdin_lock, pending_lock, chan,
                    taskVars, readerVars, concurrent, ownerVars, envVars, histVars >>

\* mutant of ShutdownKill: the handle is put back once the child was waited
\* for
ShutdownKillRestoresChild(s) ==
    /\ shutdown_pc[s] \in {"killing", "drop_killing"}
    /\ kills' = kills + 1
    /\ pipe' = IF pipe = PipeOpen THEN "Broken pipe (os error 32)" ELSE pipe
    /\ wire' = << >>
    /\ partial' = NoId
    /\ child' = TRUE
    /\ shutdown_pc' = [shutdown_pc EXCEPT
            ![s] = IF @ = "drop_killing" THEN "drop_killed" ELSE "killed"]
    /\ UNCHANGED << stdin, next_id, pending, ready, lockVars, chan, taskVars,
                    readerVars, shutdowns, concurrent, ownerVars, ui, histVars >>

\* `let _ = child.kill(); let _ = child.wait();` in the call of thread s: the
\* child is gone, nobody reads its input pipe any more and what the pipe held
\* is lost; the call is still inside the `if let` and holds the child mutex
ShutdownKill(s) ==
    /\ shutdown_pc[s] \in {"killing", "drop_killing"}
    /\ kills' = kills + 1
    /\ pipe' = IF pipe = PipeOpen THEN "Broken pipe (os error 32)" ELSE pipe
    /\ wire' = << >>
    /\ partial' = NoId
    /\ shutdown_pc' = [shutdown_pc EXCEPT
            ![s] = IF @ = "drop_killing" THEN "drop_killed" ELSE "killed"]
    /\ UNCHANGED << clientVars, lockVars, chan, taskVars, readerVars, shutdowns,
                    concurrent, ownerVars, ui, histVars >>

\* "Bridge process killed" is printed, the `if let` ends, which drops the
\* guard of the child mutex, and the call of thread s returns
ShutdownReturn(s) ==
    /\ shutdown_pc[s] \in {"killed", "drop_killed"}
    /\ child_lock' = Free
    /\ shutdown_pc' = [shutdown_pc EXCEPT
            ![s] = IF @ = "drop_killed" THEN "dropped" ELSE "idle"]
    /\ shutdowns' = shutdowns + 1
    /\ UNCHANGED << clientVars, stdin_lock, pending_lock, chan, taskVars, readerVars,
                    concurrent, ownerVars, envVars, histVars >>

\* the steps of thread s in shutdown()
Shutdown(s) ==
    \/ ShutdownCall(s)
    \/ ShutdownTake(s)
    \/ ShutdownKill(s)
    \/ ShutdownReturn(s)

(***************************************************************************)
(* impl Drop for BridgeClient: `self.shutdown()`.  drop(&mut self) runs    *)
(* when the last owner lets go of the transport, so no call of one of its  *)
(* methods is in progress and none begins afterwards; a future that was    *)
(* dropped at its await borrows nothing.  The reader thread has its own    *)
(* references to stdin, pending and ready and goes on.                     *)
(***************************************************************************)
\* Drop::drop is entered; its body is the call of shutdown() that
\* ShutdownTake, ShutdownKill and ShutdownReturn carry out
Drop ==
    /\ ~Dropping
    /\ ShutdownsInFlight = {}
    /\ \A t \in Tasks : pc[t] \in {"idle", "done", "abandoned"}
    /\ shutdown_pc' = [shutdown_pc EXCEPT ![ShutdownThread] = "drop"]
    /\ concurrent' = IF concurrent = 0 THEN 1 ELSE concurrent
    /\ UNCHANGED << clientVars, lockVars, chan, taskVars, readerVars, shutdowns,
                    ownerVars, envVars, histVars >>

(***************************************************************************)
(* The child stops reading its input (it exits, crashes or closes it):     *)
(* what the pipe held is lost, and from then on every write to it fails.   *)
(***************************************************************************)
ChildClosesInput ==
    /\ pipe = PipeOpen
    /\ pipe' \in IoErrors
    /\ wire' = << >>
    /\ partial' = NoId
    /\ UNCHANGED << clientVars, lockVars, chan, taskVars, readerVars, shutVars, ownerVars,
                    kills, ui, histVars >>

(***************************************************************************)
(* The child reads its input: a read takes what the pipe holds, up to the  *)
(* size of the child's buffer, whole lines or not, and makes room for the  *)
(* writers.  Nothing is read from a pipe the child has closed.             *)
(***************************************************************************)
ChildReads ==
    /\ pipe = PipeOpen
    /\ \E k \in 1..Len(wire) :
          /\ wire' = SubSeq(wire, k + 1, Len(wire))
          /\ partial' = IF wire[k][2] = "newline" THEN NoId ELSE wire[k][1]
    /\ UNCHANGED << clientVars, lockVars, chan, taskVars, readerVars, shutVars, ownerVars,
                    pipe, kills, ui, histVars >>

(***************************************************************************)
(* The readiness wait of BridgeClient::new.  Time passes while the thread  *)
(* sleeps: a sleep lasts at least the time asked for, and may last past    *)
(* the deadline when the thread is not scheduled.  Nobody else holds the   *)
(* client before new returns.                                              *)
(***************************************************************************)
TimeoutMillis == 5000      \* `let timeout = Duration::from_secs(5);`
SleepMillis == 100         \* `std::thread::sleep(Duration::from_millis(100));`
SleepDurations == {SleepMillis, TimeoutMillis}

\* `while start.elapsed() < timeout`; past the deadline new prints its
\* warning and returns Ok(client)
NewLoop ==
    /\ new_pc = "loop"
    /\ IF elapsed < TimeoutMillis
       THEN new_pc' = "poll" /\ elapsed' = elapsed
       ELSE new_pc' = "timeout" /\ elapsed' = 0
    /\ UNCHANGED << clientVars, lockVars, chan, taskVars, readerVars, shutVars, cmd,
                    envVars, histVars >>

\* `if *ready_clone.lock().unwrap() { return Ok(client); }`
NewPoll ==
    /\ new_pc = "poll"
    /\ IF ready
       THEN new_pc' = "ready" /\ elapsed' = 0
       ELSE new_pc' = "sleep" /\ elapsed' = elapsed
    /\ UNCHANGED << clientVars, lockVars, chan, taskVars, readerVars, shutVars, cmd,
                    envVars, histVars >>

\* mutant of NewSleep: the clock does not advance
NewSleepNoTime ==
    /\ new_pc = "sleep"
    /\ new_pc' = "loop"
    /\ UNCHANGED << clientVars, lockVars, chan, taskVars, readerVars, shutVars, elapsed,
                    cmd, envVars, histVars >>

\* `std::thread::sleep(Duration::from_millis(100));`
NewSleep ==
    /\ new_pc = "sleep"
    /\ \E d \in SleepDurations :
          elapsed' = IF elapsed + d < TimeoutMillis THEN elapsed + d ELSE TimeoutMillis
    /\ new_pc' = "loop"
    /\ UNCHANGED << clientVars, lockVars, chan, taskVars, readerVars, shutVars, cmd,
                    envVars, histVars >>

\* new has returned Ok(client): the transport is in its owner's hands
Constructed == new_pc \in {"ready", "timeout"}

(***************************************************************************)
(* commands::send_message, run by the caller task CmdTask:                 *)
(* `bridge_clone.launch(..).await`, the match that prints either result,   *)
(* then `bridge_clone.send_message(profile, message).await?; Ok(())`.      *)
(* launch and send_message are send_request with the methods "launch" and  *)
(* "sendMessage".  cmd.pc tells which of the two calls is under way, or    *)
(* how the command ended: "done" with a result, "panicked" without one.    *)
(***************************************************************************)
CmdTask == "t1"
Unit == "()"
CmdIdle == [pc |-> "idle", launch |-> NoOutcome, launch_id |-> NoId, result |-> NoOutcome]

\* the method of the request the command has under way
CmdMethod ==
    CASE cmd.pc = "launch" -> "launch"
      [] cmd.pc = "send" -> "sendMessage"
      [] OTHER -> "none"

\* the command is invoked.  The params of launch are built first, with
\* `std::env::current_dir().unwrap()`: when the working directory of the
\* process can be read, launch is called; when it cannot (it was removed),
\* unwrap panics and the command ends there, without a result.
CommandLaunch ==
    /\ cmd.pc \in {"idle", "done", "panicked"}
    /\ \E current_dir \in {"Ok", "Err"} :
          IF current_dir = "Ok"
          THEN /\ SendRequestEnter(CmdTask)
               /\ cmd' = [CmdIdle EXCEPT !.pc = "launch"]
          ELSE /\ cmd' = [CmdIdle EXCEPT !.pc = "panicked"]
               /\ UNCHANGED << clientVars, lockVars, chan, taskVars, readerVars,
                               shutVars, envVars, histVars >>
    /\ UNCHANGED newVars

\* launch has returned; either arm of the match prints, and send_message is
\* called
CommandSendMessage ==
    /\ cmd.pc = "launch"
    /\ pc[CmdTask] = "done"
    /\ SendRequestEnter(CmdTask)
    /\ cmd' = [cmd EXCEPT !.pc = "send", !.launch = outcome[CmdTask],
                           !.launch_id = id[CmdTask]]
    /\ UNCHANGED newVars

\* `bridge_clone.send_message(profile, message).await?; Ok(())`
CommandReturn ==
    /\ cmd.pc = "send"
    /\ pc[CmdTask] = "done"
    /\ cmd' = [cmd EXCEPT !.pc = "done",
                           !.result = IF outcome[CmdTask].tag = "Err"
                                      THEN outcome[CmdTask]
                                      ELSE Ok(Unit)]
    /\ UNCHANGED << clientVars, lockVars, chan, taskVars, readerVars, shutVars, newVars,
                    envVars, histVars >>

Next ==
    \/ \E t \in Tasks : SendRequest(t)
    \/ \E line \in CoreLines : ReaderLine(line)
    \/ ReaderEnd
    \/ ReaderClearStdin
    \/ ShutdownCall(ShutdownThread)
    \/ ShutdownTake(ShutdownThread)
    \/ ShutdownKill(ShutdownThread)
    \/ ShutdownReturn(ShutdownThread)
    \/ ChildReads
    \/ ChildClosesInput

Spec == Init /\ [][Next]_vars

(***************************************************************************)
(* The reader facing a child that prints any line: responses under any id, *)
(* events of any name, blank lines and lines that are no message.  One     *)
(* caller sends requests.                                                  *)
(***************************************************************************)
LinesNext ==
    \/ SendRequest("t1")
    \/ \E line \in Lines : ReaderLine(line)
    \/ ReaderEnd
    \/ ReaderClearStdin
    \/ ShutdownCall(ShutdownThread)
    \/ ShutdownTake(ShutdownThread)
    \/ ShutdownKill(ShutdownThread)
    \/ ShutdownReturn(ShutdownThread)
    \/ ChildReads
    \/ ChildClosesInput

LinesSpec == Init /\ [][LinesNext]_vars

(***************************************************************************)
(* The same reader with a history of the line it handled last, without     *)
(* shutdown.                                                               *)
(***************************************************************************)
SeenNext ==
    \/ SendRequest("t1")
    \/ \E line \in Lines : ReaderLineSeen(line)
    \/ ReaderEnd
    \/ ReaderClearStdin
    \/ ChildReads
    \/ ChildClosesInput

SeenSpec == Init /\ [][SeenNext]_vars

(***************************************************************************)
(* Callers that may give up a call while it waits for its response.        *)
(***************************************************************************)
AbandonNext ==
    \/ \E t \in Tasks : SendRequest(t) \/ Abandon(t)
    \/ \E line \in CoreLines \cup LongResponses : ReaderLine(line)
    \/ ReaderEnd
    \/ ReaderClearStdin
    \/ ChildReads
    \/ ChildClosesInput

AbandonSpec == Init /\ [][AbandonNext]_vars

(***************************************************************************)
(* The life of a transport to its teardown: one caller, whose future may   *)
(* be dropped, explicit calls of shutdown(), and the drop of the client.   *)
(***************************************************************************)
TeardownNext ==
    \/ SendRequest("t1")
    \/ Abandon("t1")
    \/ \E line \in CoreLines : ReaderLine(line)
    \/ ReaderEnd
    \/ ReaderClearStdin
    \/ \E s \in ShutdownThreads : ShutdownCall(s)
    \/ \E s \in ShutdownThreads : ShutdownTake(s)
    \/ \E s \in ShutdownThreads : ShutdownKill(s)
    \/ \E s \in ShutdownThreads : ShutdownReturn(s)
    \/ Drop
    \/ ChildReads
    \/ ChildClosesInput

TeardownSpec == Init /\ [][TeardownNext]_vars

(***************************************************************************)
(* Two callers whose requests are short or long, a pipe that fills up and  *)
(* a child that reads when it pleases, or stops reading.                   *)
(***************************************************************************)
PipeNext ==
    \/ \E t \in Tasks : SendRequestAnyLength(t)
    \/ \E line \in CoreLines : ReaderLine(line)
    \/ ReaderEnd
    \/ ReaderClearStdin
    \/ ChildReads
    \/ ChildClosesInput

PipeSpec == Init /\ [][PipeNext]_vars

(***************************************************************************)
(* The threads that take the mutexes, every acquisition a step of its own: *)
(* two callers, the reader and shutdown().                                 *)
(***************************************************************************)
LockNext ==
    \/ \E t \in Tasks : SendRequestByStep(t)
    \/ ReaderByStep
    \/ \E s \in ShutdownThreads : ShutdownCall(s)
    \/ \E s \in ShutdownThreads : ShutdownTake(s)
    \/ \E s \in ShutdownThreads : ShutdownKill(s)
    \/ \E s \in ShutdownThreads : ShutdownReturn(s)
    \/ ChildReads
    \/ ChildClosesInput

LockSpec == Init /\ [][LockNext]_vars

(***************************************************************************)
(* The send_message command, invoked again and again, with the reader and  *)
(* a child that may stop reading its input.                                *)
(***************************************************************************)
CommandNext ==
    \/ CommandLaunch
    \/ CommandSendMessage
    \/ CommandReturn
    \/ SendRequestSteps(CmdTask)
    \/ \E line \in CoreLines : ReaderLine(line)
    \/ ReaderEnd
    \/ ReaderClearStdin
    \/ ChildReads
    \/ ChildClosesInput

CommandSpec == Init /\ [][CommandNext]_vars

(***************************************************************************)
(* Construction: new waits for readiness while the reader thread runs; the *)
(* owner of the transport calls send_request once new has returned.  The   *)
(* thread in new is an operating-system thread that is never blocked for   *)
(* good (the reader holds the `ready` mutex for one assignment), hence the *)
(* weak fairness of its steps.                                             *)
(***************************************************************************)
NewStep == NewLoop \/ NewPoll \/ NewSleep

NewNext ==
    \/ NewLoop
    \/ NewPoll
    \/ NewSleep
    \/ Constructed /\ SendRequest("t1")
    \/ \E line \in Lines : ReaderLine(line)
    \/ ReaderEnd
    \/ ReaderClearStdin
    \/ ChildReads
    \/ ChildClosesInput

NewSpec == NewInit /\ [][NewNext]_vars /\ WF_vars(NewStep)

TypeOK ==
    /\ child \in BOOLEAN /\ stdin \in BOOLEAN /\ ready \in BOOLEAN
    /\ next_id \in 1..(MaxId + 1)
    /\ DOMAIN pending \subseteq Ids
    /\ \A k \in DOMAIN pending : pending[k] \in Ids
    /\ child_lock \in Tasks \cup ShutdownThreads \cup {Free}
    /\ stdin_lock \in Tasks \cup {Free}
    /\ pending_lock \in Tasks \cup {Free, ReaderThread}
    /\ \A t \in Tasks : id[t] \in Ids \cup {NoId}
    /\ \A t \in Tasks : written[t] \in 0..2
    /\ \A t \in Tasks : unwritten[t] \in 0..PipeCapacity
    /\ \A t \in Tasks : unwritten[t] > 0 => pc[t] = "write_json"
    /\ pipe # PipeOpen => wire = << >> /\ partial = NoId
    /\ Len(wire) <= PipeCapacity
    /\ partial \in Ids \cup {NoId}
    /\ reader_pc \in {"reading", "parsed", "handling", "closing", "exited", "panicked"}
    /\ last_line \in Lines \cup {NoLine}
    /\ shutdown_pc \in [ShutdownThreads ->
            {"idle", "called", "killing", "killed",
             "drop", "drop_killing", "drop_killed", "dropped"}]
    /\ \A s \in ShutdownThreads \ {ShutdownThread} :
            shutdown_pc[s] \in {"idle", "called", "killing", "killed"}
    /\ concurrent \in 0..Cardinality(ShutdownThreads)
    /\ shutdowns \in 0..(MaxShutdowns + 1)
    /\ new_pc \in {"loop", "poll", "sleep", "ready", "timeout"}
    /\ elapsed \in 0..TimeoutMillis
    /\ pipe \in {PipeOpen} \cup IoErrors
    /\ kills \in 0..1
    /\ Len(ui) <= MaxEmits
    /\ cmd.pc \in {"idle", "launch", "send", "done", "panicked"}

(***************************************************************************)
(* Properties of the transport.                                            *)
(***************************************************************************)
\* a call that came back from `rx.await` with what the reader sent
Resolved(t) == pc[t] = "done" /\ via[t] # NoLine

\* a call that came back with the given local error
Failed(t, msg) == pc[t] = "done" /\ via[t] = NoLine /\ outcome[t].msg = msg

\* C1: whatever the number of calls in flight and the order of the response
\* lines, a value only ever sits in the channel of the request whose id the
\* response line bears, and a caller is resumed with the value the reader
\* computed from the response line that bears the caller's own id.
C1_ResponseMatchedById ==
    /\ \A i \in Ids : chan[i].full => chan[i].line.id = i
    /\ \A t \in Tasks :
          Resolved(t) =>
              /\ via[t].id = id[t]
              /\ outcome[t] = ResponseResult(ParseResponse(via[t]))

\* C1 witness: requests 1 and 2 are both in flight, the response to 2 has
\* arrived and resumed its caller, the caller of 1 still waits.
C1_Witness ==
    /\ pc["t1"] = "await" /\ id["t1"] = 1 /\ ~chan[1].full
    /\ Resolved("t2") /\ id["t2"] = 2 /\ outcome["t2"] = Err("e1")

\* C2: the ids handed out start at 1, grow strictly in allocation order and
\* never repeat.
C2_IdsStrictlyIncreasing ==
    /\ issued # << >> => issued[1] = 1
    /\ \A j, k \in 1..Len(issued) : j < k => issued[j] < issued[k]

\* C2 witness: three ids were handed out; the call with id 1 has returned,
\* the call with id 2 failed on a broken pipe, and the caller of 1 holds id 3.
C2_Witness ==
    /\ issued = << 1, 2, 3 >>
    /\ 1 \in returned
    /\ id["t2"] = 2 /\ Failed("t2", MsgClosed)
    /\ id["t1"] = 3

\* C3: a call whose liveness check fails returns the "not running" error at
\* once, and no step of it up to that return changes the id counter, the
\* Pending Registry or the child's input: it holds no id and wrote nothing.
C3_LivenessFailureTouchesNothing ==
    /\ [](\A t \in Tasks :
            Failed(t, MsgNotRunning) =>
                outcome[t] = Err(MsgNotRunning) /\ id[t] = NoId /\ written[t] = 0)
    /\ [][\A t \in Tasks :
            (pc[t] = "alive_ready" /\ ~(process_alive[t] /\ ready) /\ pc'[t] # pc[t])
                => /\ pc'[t] = "done"
                   /\ outcome'[t] = Err(MsgNotRunning)
                   /\ next_id' = next_id /\ pending' = pending /\ wire' = wire]_vars
    /\ [][\A t \in Tasks :
            (pc[t] \in {"idle", "done", "alive_child", "alive_stdin"} /\ pc'[t] # pc[t])
                => next_id' = next_id /\ pending' = pending /\ wire' = wire]_vars

\* C3 witness: a call failed its liveness check while another request was
\* registered and in flight.
C3_Witness ==
    /\ Failed("t2", MsgNotRunning)
    /\ pc["t1"] = "await" /\ id["t1"] \in DOMAIN pending

\* C4: the outcome of a resolved call is a function of the response line
\* alone: an error string gives exactly that failure, also when a result is
\* present; a result without error gives success with it; neither gives
\* success with null.
C4_OutcomeFromResponse ==
    \A t \in Tasks :
        Resolved(t) =>
            LET l == via[t]
                hasError == l.error \notin {Absent, JsonNull}
                hasResult == l.result \notin {Absent, JsonNull}
            IN  /\ hasError => outcome[t] = Err(l.error)
                /\ (~hasError /\ hasResult) => outcome[t] = Ok(l.result)
                /\ (~hasError /\ ~hasResult) => outcome[t] = Ok(JsonNull)

\* C4 witness: a response with both a result and an error resolved a caller
\* to the failure.
C4_Witness ==
    \E t \in Tasks :
        Resolved(t) /\ via[t].result = "r1" /\ via[t].error = "e1"
                    /\ outcome[t] = Err("e1")

\* C5: a call has returned a success or a remote error only if the reader
\* processed a response line bearing its id; every other return is the error
\* of the liveness check, of the missing stdin handle or of a failed write or
\* flush of that call.
C5_ReturnsOnlyAfterResolutionOrFailure ==
    \A t \in Tasks :
        pc[t] = "done" =>
            \/ /\ via[t] # NoLine
               /\ ParsesAsResponse(via[t])
               /\ via[t].id = id[t]
               /\ outcome[t].tag \in {"Ok", "Err"}
            \/ /\ via[t] = NoLine
               /\ \/ outcome[t] = Err(MsgNotRunning)
                  \/ outcome[t] = Err(MsgStdinNA) /\ ~stdin
                  \/ outcome[t] = ErrClosed(pipe) /\ pipe \in IoErrors

\* C5 witness: one call came back with a success after its response, while
\* another came back with the error of its failed write.
C5_Witness ==
    /\ Resolved("t1") /\ outcome["t1"] = Ok("r1")
    /\ Failed("t2", MsgClosed) /\ id["t2"] # NoId

\* an id whose entry has been inserted into the Pending Registry
Registered(i) == i \in DOMAIN pending \/ removals[i] > 0

\* the states of send_request in which it holds the stdin mutex
Writing == {"write_json", "write_newline", "flush", "write_failed"}

\* C6: once a send_request call has returned, the registry holds no entry
\* under the id the call allocated.
C6_NoEntryAfterReturn == \A i \in returned : i \notin DOMAIN pending

\* C7 as claimed, for a request that was written whole: by the time the
\* reader thread is gone, its entry has been removed exactly once.
C7_EveryEntryRemovedOnce ==
    \A t \in Tasks :
        (pc[t] = "await" /\ reader_pc = "exited") => removals[id[t]] = 1

\* C7, amended: the entry of an id is in the registry before the first byte
\* of its request line is written; an entry is removed at most once, and only
\* by the reader or by the call that owns it in the error arm of its write.
C7_RegisteredBeforeWriteRemovedAtMostOnce ==
    /\ [](\A t \in Tasks :
            (pc[t] \in Writing \cup {"await"} \/ written[t] > 0) => Registered(id[t]))
    /\ [](\A k \in 1..Len(wire) : Registered(wire[k][1]))
    /\ [](\A i \in Ids : removals[i] <= 1 /\ (i \in DOMAIN pending => removals[i] = 0))
    /\ [][\A i \in Ids :
            removals'[i] # removals[i] =>
                /\ removals'[i] = removals[i] + 1
                /\ i \in DOMAIN pending /\ i \notin DOMAIN pending'
                /\ \/ pc' = pc /\ reader_pc = "reading"
                   \/ \E t \in Tasks :
                        /\ id[t] = i
                        /\ pc[t] = "write_failed"
                        /\ pc'[t] = "done"]_vars

\* C7 witness: the reader removed the entry of one request on its response,
\* and a call removed its own entry after its write failed.
C7_Witness ==
    /\ Resolved("t1") /\ removals[id["t1"]] = 1
    /\ Failed("t2", MsgClosed) /\ removals[id["t2"]] = 1

\* C8: a call whose write failed removes its own entry and nothing else from
\* the registry and returns the "closed unexpectedly" error with the I/O
\* error's text; afterwards no line resolves a caller under that id.  The
\* flush of the child's stdin returns Ok(()) always, so no call ever is in
\* the error arm of the flush.
C8_WriteFailureCleansUp ==
    /\ [](\A t \in Tasks :
            Failed(t, MsgClosed) =>
                /\ id[t] \notin DOMAIN pending
                /\ outcome[t] = ErrClosed(pipe) /\ pipe \in IoErrors
                /\ ~chan[id[t]].full)
    /\ [][\A t \in Tasks :
            (pc[t] = "write_failed" /\ pc'[t] # pc[t]) =>
                /\ pc'[t] = "done"
                /\ outcome'[t] = ErrClosed(pipe)
                /\ DOMAIN pending' = DOMAIN pending \ {id[t]}
                /\ \A k \in DOMAIN pending' : pending'[k] = pending[k]]_vars
    /\ [][\A t \in Tasks :
            (Failed(t, MsgClosed) /\ pc'[t] = "done") =>
                \A j \in Ids :
                    (chan'[j].full /\ ~chan[j].full) =>
                        j # id[t] /\ chan'[j].line.id = j]_vars
    /\ [][\A t \in Tasks : pc[t] = "flush" => pc'[t] \in {"flush", "await"}]_vars

\* C8 witness: the JSON text of a request was written and the write of its
\* newline failed; the call returned the error, and the entry of another
\* request is still registered.
C8_Witness ==
    /\ Failed("t1", MsgClosed) /\ written["t1"] = 1
    /\ pc["t2"] = "await" /\ id["t2"] \in DOMAIN pending

\* the unit that comes before wire[k] in what was written to the child's
\* input: the one before it in the pipe, or the last one the child read
UnitBefore(k) ==
    IF k > 1 THEN wire[k - 1]
    ELSE IF partial = NoId THEN << NoId, "newline" >> ELSE << partial, "json" >>

\* the last unit of what was written to the child's input
LastUnit == UnitBefore(Len(wire) + 1)

\* C9: a caller is inside the write block only while it holds the stdin
\* mutex, so what is written to the child's input is whole request lines one
\* after the other: the JSON text of a line is followed by more of it or by
\* its newline and by nothing of another line, a newline is followed by the
\* JSON text of another request, and the line that still lacks its newline
\* is the line of the caller that holds the mutex and is writing it, also
\* when that write waits on a full pipe.
C9_WritesSerialized ==
    /\ \A t \in Tasks : pc[t] \in Writing => stdin_lock = t
    /\ \A k \in 1..Len(wire) :
          IF UnitBefore(k)[2] = "json"
          THEN wire[k][1] = UnitBefore(k)[1]
          ELSE /\ wire[k][2] = "json"
               /\ \A j \in 1..(k - 1) : wire[j][1] # wire[k][1]
               /\ wire[k][1] # partial
    /\ LastUnit[2] = "json" =>
          \E t \in Tasks :
              /\ stdin_lock = t /\ id[t] = LastUnit[1]
              /\ pc[t] \in {"write_json", "write_newline"}
              /\ pc[t] = "write_json" => unwritten[t] > 0

\* C9 witness: the pipe is full; it holds the whole line of an earlier
\* request, unread, and a part of the JSON text of t1, which waits inside
\* its write with the mutex; t2 has registered its request and waits for
\* the mutex.
C9_Witness ==
    /\ pc["t1"] = "write_json" /\ written["t1"] = 1 /\ unwritten["t1"] > 0
    /\ stdin_lock = "t1"
    /\ Len(wire) = PipeCapacity /\ pipe = PipeOpen
    /\ wire[1][1] # id["t1"] /\ wire[PipeCapacity] = << id["t1"], "json" >>
    /\ pc["t2"] = "send" /\ stdin

\* C10: once the reader thread has exited, the stdin handle is absent, and a
\* send_request call begun after that sees is_alive() false, takes no id,
\* writes nothing and returns the "not running" error.
C10_ReaderExitStopsRequests ==
    /\ reader_pc = "exited" => ~stdin
    /\ \A t \in Tasks :
          late[t] =>
              /\ pc[t] \in {"alive_child", "alive_stdin", "alive_ready", "done"}
              /\ ~process_alive[t]
              /\ id[t] = NoId /\ written[t] = 0
              /\ pc[t] = "done" => outcome[t] = Err(MsgNotRunning)

\* C10 witness: a request is still waiting for its response when the reader
\* exits, and a call begun afterwards has failed fast.
C10_Witness ==
    /\ reader_pc = "exited"
    /\ pc["t1"] = "await" /\ id["t1"] \in DOMAIN pending
    /\ late["t2"] /\ Failed("t2", MsgNotRunning)

\* what is_alive() returns when it runs in the current state
IsAliveNow == IsAlive(IF child THEN stdin ELSE FALSE, ready)

\* the states of send_request that follow a liveness check that passed
PastCheck == {"alloc", "register", "send", "await", "abandoned"} \cup Writing

\* C11: is_alive() is true only if it read the process handle present and the
\* readiness flag true: a call gets past its liveness check only then, and
\* fails with "not running" otherwise.  While the handle is present,
\* is_alive() is false as long as no "ready" event was processed and true
\* from the step that processes it.
C11_AliveOnlyWithHandleAndReady ==
    /\ [](\A t \in Tasks : pc[t] \in PastCheck => process_alive[t] /\ ready)
    /\ [](IsAliveNow => child /\ ready)
    /\ []((child /\ stdin) => (IsAliveNow <=> ready))
    /\ [][\A t \in Tasks :
            (process_alive'[t] /\ ~process_alive[t]) =>
                child /\ stdin /\ child_lock = t]_vars
    /\ [][\A t \in Tasks :
            (pc[t] = "alive_ready" /\ pc'[t] # pc[t]) =>
                IF process_alive[t] /\ ready
                THEN pc'[t] = "alloc"
                ELSE pc'[t] = "done" /\ outcome'[t] = Err(MsgNotRunning)]_vars
    /\ [][(child /\ stdin /\ ~ready /\ ready') =>
                /\ ~IsAliveNow
                /\ IsAliveNow']_vars

\* C11 witness: no request was sent yet and the handle is present; one call
\* ran is_alive() before the "ready" event and got false, the other ran it
\* after the event and got true.
C11_Witness ==
    /\ child /\ stdin /\ issued = << >>
    /\ Failed("t1", MsgNotRunning) /\ process_alive["t1"]
    /\ pc["t2"] = "alloc"

\* a line that handle_message takes as the event "ready"
IsReadyEvent(line) ==
    ~ParsesAsResponse(line) /\ ParsesAsEvent(line) /\ line.event = "ready"

\* C12: the readiness flag is false when the transport is created; it only
\* ever changes from false to true, and only in a step of the reader that
\* handles an event named "ready"; no other line, no end of the stream, no
\* shutdown and no request changes it.
C12_ReadyMonotonic ==
    /\ ~ready
    /\ [][ready' # ready =>
            /\ ~ready /\ ready'
            /\ \E line \in Lines : IsReadyEvent(line) /\ ReaderLine(line)]_vars
    /\ [][ready => ready']_vars

\* C12 witness: after the "ready" event the child sent a "message" event, a
\* request was answered, the stream ended and shutdown ran: the flag is
\* still true.
C12_Witness ==
    /\ ready
    /\ Len(ui) = 1
    /\ Resolved("t1")
    /\ reader_pc = "exited"
    /\ kills = 1

\* C13: once the client is built and the readers are started, new always
\* returns the transport and has no failing exit: from a poll that reads the
\* flag true it returns at once, from a poll that reads it false it sleeps,
\* and at the loop head past the deadline it returns all the same, whatever
\* the child printed and also after its output closed.  As long as no
\* "ready" event was processed, every send_request on the returned transport
\* fails its liveness check.
C13_ConstructionReturns ==
    /\ <>Constructed
    /\ [][new_pc' # new_pc =>
            \/ new_pc = "loop" /\ elapsed < TimeoutMillis /\ new_pc' = "poll"
            \/ new_pc = "loop" /\ elapsed >= TimeoutMillis /\ new_pc' = "timeout"
            \/ new_pc = "poll" /\ ready /\ new_pc' = "ready"
            \/ new_pc = "poll" /\ ~ready /\ new_pc' = "sleep"
            \/ new_pc = "sleep" /\ elapsed' >= elapsed + SleepMillis /\ new_pc' = "loop"
            \/ new_pc = "sleep" /\ elapsed' = TimeoutMillis /\ new_pc' = "loop"]_vars
    /\ [](new_pc = "ready" => ready)
    /\ []((Constructed /\ ~ready) =>
            \A t \in Tasks :
                /\ pc[t] \notin PastCheck
                /\ pc[t] = "done" => outcome[t] = Err(MsgNotRunning))
    /\ [](~Constructed => \A t \in Tasks : pc[t] = "idle")

\* C13 witness: the child closed its output without ever sending "ready";
\* new returned after the deadline, and a send_request on the transport was
\* rejected.
C13_Witness ==
    /\ new_pc = "timeout"
    /\ ~ready /\ reader_pc = "exited"
    /\ Failed("t1", MsgNotRunning)

\* a line that handle_message takes as an event of a name it does not know
IsOtherEvent(line) ==
    /\ ~line.blank /\ ~ParsesAsResponse(line) /\ ParsesAsEvent(line)
    /\ line.event \notin {"ready", "message"}

\* the lines of that kind the child can print
OtherEvents == { line \in Lines : IsOtherEvent(line) }

\* C15: a turn of the reader on an event named neither "ready" nor
\* "message" leaves the readiness flag, the Pending Registry, the id
\* counter, the process handle and the stdin handle as they were and emits
\* nothing to the frontend.
C15_OtherEventChangesNothing ==
    [][\A line \in OtherEvents :
        ReaderLineSeen(line) =>
            UNCHANGED << ready, pending, next_id, child, stdin, ui >>]_vars

\* C15 witness: the reader has just handled an event named "other" while a
\* request was in flight; the flag is set, the entry is in the registry and
\* nothing was emitted.
C15_Witness ==
    /\ IsOtherEvent(last_line) /\ last_line.size = "short"
    /\ reader_pc = "reading"
    /\ ready /\ ui = << >>
    /\ pc["t1"] = "await" /\ id["t1"] \in DOMAIN pending

\* C16 as claimed: a turn of the reader on a response line whose id has no
\* entry in the registry changes nothing in the transport, resolves and
\* fails no caller, and leaves the reader reading.
C16_UnmatchedResponseDropped ==
    [][\A line \in Lines :
        (ParsesAsResponse(line) /\ line.id \notin DOMAIN pending /\ ReaderLine(line)) =>
            /\ UNCHANGED << clientVars, lockVars, chan, taskVars, envVars, histVars >>
            /\ reader_pc' = "reading"]_vars

\* C17 as claimed: whatever line the reader takes, it is still reading
\* afterwards; a line that is no message changes no caller's state; the
\* reader leaves its loop only at the end of the stream or on a read error.
C17_NoLineEndsReader ==
    /\ [][\A line \in Lines : ReaderLine(line) => reader_pc' = "reading"]_vars
    /\ [][\A line \in Lines :
            (/\ ~line.blank /\ ~ParsesAsResponse(line) /\ ~ParsesAsEvent(line)
             /\ ReaderLine(line)) => UNCHANGED << chan, taskVars, pending >>]_vars
    /\ [][(reader_pc = "reading" /\ reader_pc' # "reading") => ReaderEnd]_vars

\* C18 as claimed: when the response to a request whose caller gave up
\* arrives, the reader removes the entry, fills no channel, touches no
\* other entry and no caller, and goes on reading.
C18_AbandonedResponseDiscarded ==
    [][\A line \in CoreLines \cup LongResponses, t \in Tasks :
        (/\ pc[t] = "abandoned" /\ id[t] \in DOMAIN pending
         /\ ParsesAsResponse(line) /\ line.id = id[t]
         /\ ReaderLine(line)) =>
            /\ pending' = PendingRemove(pending, id[t])
            /\ UNCHANGED << chan, taskVars >>
            /\ reader_pc' = "reading"]_vars

\* C14: the first shutdown() to find the handle takes it, kills the child and
\* waits; every call after one that has returned finds no handle, kills
\* nothing, waits for nothing and changes nothing: after two calls the
\* transport is as after one, the handle absent and is_alive() false.
C14_ShutdownIdempotent ==
    /\ [](kills <= 1)
    /\ [](shutdowns >= 1 => shutdown_pc[ShutdownThread] \in {"idle", "called"} /\ kills = 1)
    /\ [](shutdowns >= 1 => ~child /\ ~IsAliveNow)
    /\ [][(shutdowns >= 1 /\ shutdown_pc'[ShutdownThread] # shutdown_pc[ShutdownThread]) =>
            /\ \/ shutdown_pc[ShutdownThread] = "idle" /\ shutdown_pc'[ShutdownThread] = "called"
                                      /\ shutdowns' = shutdowns
               \/ shutdown_pc[ShutdownThread] = "called" /\ shutdown_pc'[ShutdownThread] = "idle"
                                        /\ shutdowns' = shutdowns + 1
            /\ UNCHANGED << clientVars, lockVars, chan, taskVars, readerVars,
                            newVars, envVars, histVars >>]_vars
    /\ [][shutdowns' # shutdowns => shutdown_pc'[ShutdownThread] # shutdown_pc[ShutdownThread]]_vars

\* C14 witness: shutdown() was called twice while a request was in flight;
\* the child was killed once.
C14_Witness ==
    /\ shutdowns = 2 /\ kills = 1
    /\ ~child /\ ready
    /\ pc["t1"] = "await"

\* C19 as claimed: when a call of shutdown() has returned, the child has been
\* killed and waited for, the process handle is absent and the input-stream
\* handle is absent.
C19_ShutdownDropsInput ==
    shutdowns >= 1 => kills = 1 /\ ~child /\ ~stdin

\* C20: once a call of shutdown() has returned, is_alive() is false for good,
\* and a send_request begun after that reads the handle absent, fails with
\* "not running", holds no id, and none of its steps changes the id counter,
\* the Pending Registry or the child's input.
C20_AfterShutdownNotRunning ==
    /\ [](shutdowns >= 1 => ~IsAliveNow)
    /\ [](\A t \in Tasks :
            after_shutdown[t] =>
                /\ pc[t] \in {"alive_child", "alive_ready", "done"}
                /\ ~process_alive[t]
                /\ id[t] = NoId /\ written[t] = 0
                /\ pc[t] = "done" => outcome[t] = Err(MsgNotRunning))
    /\ [][\A t \in Tasks :
            (after_shutdown[t] /\ after_shutdown'[t] /\ pc'[t] # pc[t]) =>
                next_id' = next_id /\ pending' = pending /\ wire' = wire]_vars

\* C20 witness: the child had announced itself, the reader is still reading
\* and the stdin handle is still there; a call begun after shutdown()
\* returned has failed, while an earlier request is still in flight.
C20_Witness ==
    /\ ready /\ stdin /\ reader_pc = "reading"
    /\ after_shutdown["t2"] /\ Failed("t2", MsgNotRunning)
    /\ pc["t1"] = "await"

\* C27: the process handle and the input-stream handle only ever change from
\* present to absent, and once the child had announced itself and is_alive()
\* is false, is_alive() is false after every further step: nothing restarts
\* the child.
C27_LivenessNeverRegained ==
    /\ [][(child' => child) /\ (stdin' => stdin)]_vars
    /\ [][(ready /\ ~IsAliveNow) => ~IsAliveNow']_vars

\* C27 witness: is_alive() was true (a request passed the check and was
\* answered), then shutdown() took the handle, and a later call found the
\* transport not running although the stdin handle is still there.
C27_Witness ==
    /\ ready /\ ~child /\ stdin /\ ~IsAliveNow
    /\ Resolved("t1")
    /\ after_shutdown["t2"] /\ Failed("t2", MsgNotRunning)

\* the calls of send_request that have passed the liveness check so far
PassedCheck == Len(issued) + Cardinality({ t \in Tasks : pc[t] = "alloc" })

\* C28: every key of the Pending Registry is an id that send_request has
\* allocated (1 <= key < next_id), the entry under a key is the completion
\* handle of the request of that id and a call about to register finds no
\* entry under its id, and the registry has no more entries than calls have
\* passed the liveness check.
C28_RegistryKeysAllocated ==
    /\ \A key \in DOMAIN pending :
            /\ 1 <= key /\ key < next_id
            /\ pending[key] = key
            /\ \E j \in 1..Len(issued) : issued[j] = key
    /\ \A t \in Tasks : pc[t] = "register" => id[t] \notin DOMAIN pending
    /\ Cardinality(DOMAIN pending) <= PassedCheck

\* C28 witness: three calls passed the check and were given ids 1, 2 and 3;
\* the entry of 2 was removed, the registry holds those of 1 and 3, and the
\* caller of 3 is suspended.
C28_Witness ==
    /\ DOMAIN pending = {1, 3} /\ next_id = 4
    /\ removals[2] = 1
    /\ \E t \in Tasks : pc[t] = "await" /\ id[t] = 3

\* C29: while the input-stream handle is absent no call is inside the write
\* block and nothing is put into the child's input pipe (the pipe only
\* loses what the child reads or what is lost with it); a call that finds the handle
\* absent at its write step has written nothing and returns "stdin not
\* available" at that step instead of suspending, also when it had passed
\* the liveness check before the reader cleared the handle.
C29_NoWriteAfterStdinCleared ==
    /\ [](~stdin => \A t \in Tasks : pc[t] \notin Writing)
    /\ [][~stdin =>
            /\ \E k \in 0..Len(wire) : wire' = SubSeq(wire, k + 1, Len(wire))
            /\ \A t \in Tasks : written'[t] <= written[t]]_vars
    /\ [][\A t \in Tasks :
            (pc[t] = "send" /\ ~stdin /\ pc'[t] # pc[t]) =>
                /\ pc'[t] = "done" /\ outcome'[t] = Err(MsgStdinNA)
                /\ written'[t] = 0]_vars
    /\ [](\A t \in Tasks :
            Failed(t, MsgStdinNA) => ~stdin /\ process_alive[t] /\ written[t] = 0)

\* C29 witness: a call entered send_request and passed the liveness check
\* while the reader was still running; the reader then saw EOF and cleared
\* the handle, and the call came back with "stdin not available", nothing
\* written.
C29_Witness ==
    /\ reader_pc = "exited" /\ ~stdin
    /\ ~late["t1"] /\ process_alive["t1"]
    /\ Failed("t1", MsgStdinNA) /\ written["t1"] = 0
    /\ wire = << >>

\* a call suspended on its completion handle, to which nothing was sent yet
Unanswered(t) == pc[t] = "await" /\ ~chan[id[t]].full

\* C26: the end of the reader loop, the reader's last step and both steps of
\* shutdown() leave the registry, the completion handles and every caller as
\* they are; and once the loop has ended, a caller that is suspended and
\* unanswered keeps its entry and stays suspended and unanswered: it is
\* never resumed, with a value or with an error.
C26_DeathResolvesNothing ==
    /\ [][(reader_pc' # reader_pc \/ shutdown_pc'[ShutdownThread] # shutdown_pc[ShutdownThread]
                \/ shutdowns' # shutdowns) =>
            UNCHANGED << pending, chan, taskVars, histVars >>]_vars
    /\ [](\A t \in Tasks : Unanswered(t) => id[t] \in DOMAIN pending)
    /\ [][\A t \in Tasks :
            (reader_pc # "reading" /\ Unanswered(t)) =>
                /\ Unanswered(t)' /\ id'[t] = id[t]
                /\ id[t] \in DOMAIN pending'
                /\ outcome'[t] = NoOutcome]_vars

\* C26 witness: the request of t1 was written and flushed; then shutdown()
\* killed the child and the reader saw EOF and exited; t1 is still
\* suspended, its entry still registered.
C26_Witness ==
    /\ reader_pc = "exited" /\ kills = 1 /\ shutdowns = 1
    /\ Unanswered("t1") /\ written["t1"] = 2
    /\ id["t1"] \in DOMAIN pending

\* a line that carries fields of a response and does not parse as one
IsMalformedResponse(line) ==
    /\ ~line.blank
    /\ ~ParsesAsResponse(line)
    /\ line.id # NoId \/ line.result # Absent \/ line.error # Absent

\* the lines that carry fields of a response
ResponseLike == { line \in Lines : ParsesAsResponse(line) \/ IsMalformedResponse(line) }

\* C22 as claimed: a line that parses as a response neither sets the
\* readiness flag nor reaches the UI sink, whatever other fields it has, and
\* neither does a malformed response: it is not handled as an event.
C22_ResponseBeforeEvent ==
    [][\A line \in ResponseLike :
            ReaderLine(line) => ready' = ready /\ ui' = ui]_vars

\* C23: the entry of an id leaves the registry at most once; a value is put
\* on a completion handle only in a step that removes its entry, by a
\* response line bearing its id, and only if it is the first removal of
\* that entry; once the entry was removed no later step registers it again
\* or puts another value on the handle, so a later response with that id
\* resolves nobody.
C23_HandleFiresAtMostOnce ==
    /\ [](\A i \in Ids : removals[i] <= 1)
    /\ [][\A i \in Ids :
            (chan'[i].full /\ chan'[i] # chan[i]) =>
                /\ ~chan[i].full /\ removals[i] = 0
                /\ i \in DOMAIN pending /\ i \notin DOMAIN pending'
                /\ ParsesAsResponse(chan'[i].line) /\ chan'[i].line.id = i]_vars
    /\ [][\A i \in Ids :
            removals[i] = 1 =>
                /\ removals'[i] = 1 /\ i \notin DOMAIN pending'
                /\ chan'[i] = chan[i] \/ ~chan'[i].full]_vars

\* C23 witness: t1 was resumed by a response bearing its id, and the line
\* the reader handled last is another response bearing that id.
C23_Witness ==
    /\ Resolved("t1") /\ removals[id["t1"]] = 1
    /\ ParsesAsResponse(last_line) /\ last_line.id = id["t1"]
    /\ last_line # via["t1"]
    /\ reader_pc = "reading"

\* the lines the reader handles as the event "message"
MessageEvents ==
    { line \in Lines :
        ~ParsesAsResponse(line) /\ ParsesAsEvent(line) /\ line.event = "message" }

\* C24 as claimed: a turn of the reader on a "message" event hands the
\* event's data to the UI sink once, on "message-stream", after what was
\* forwarded before, and leaves the reader reading whether emit failed or
\* not; no other step forwards anything.
C24_MessageForwardedOnce ==
    /\ [][\A line \in MessageEvents :
            ReaderLine(line) =>
                /\ \E ok \in BOOLEAN : ui' = Emit(ui, MessageStream, line.data, ok)
                /\ reader_pc' = "reading"
                /\ UNCHANGED << clientVars, lockVars, chan, taskVars >>]_vars
    /\ [][ui' # ui => \E line \in MessageEvents : ReaderLine(line)]_vars

\* the threads whose call of shutdown() has taken the handle and has not
\* yet returned
Killers ==
    { s \in ShutdownThreads :
        shutdown_pc[s] \in {"killing", "killed", "drop_killing", "drop_killed"} }

\* of those, the threads whose call has killed the child and waited for it
Killed == { s \in ShutdownThreads : shutdown_pc[s] \in {"killed", "drop_killed"} }

\* C21: the teardown is one call of shutdown(): entering Drop::drop counts
\* no call, and the teardown ends with the step that counts exactly one
\* more returned call; when it has ended the handle is absent and the child
\* was killed and waited for; the child is killed at most once in the life
\* of the transport, however many calls of shutdown() came before the
\* teardown and however they overlapped: of the calls in progress at most
\* one has taken the handle, it holds the child mutex until it has killed
\* and waited, and every other call that returns has found no handle and
\* killed nothing; the teardown begins when no call is in progress, and
\* after it no call is made and nothing is killed.
C21_TeardownShutsDownOnce ==
    /\ [](kills <= 1)
    /\ [](Cardinality(Killers) <= 1)
    /\ [](\A s \in ShutdownThreads :
            s \in Killers <=> child_lock = s)
    /\ [](Killers # {} => ~child /\ kills = (IF Killed # {} THEN 1 ELSE 0))
    /\ [][kills' # kills =>
            /\ kills' = kills + 1 /\ ~child /\ ~child'
            /\ \E s \in Killers \ Killed :
                    child_lock = s /\ child_lock' = s /\ s \in Killed'
            /\ shutdowns' = shutdowns]_vars
    /\ [][shutdowns' # shutdowns =>
            /\ shutdowns' = shutdowns + 1
            /\ \E s \in ShutdownThreads :
                    /\ shutdown_pc[s] \notin {"idle", "dropped"}
                    /\ shutdown_pc'[s] \in {"idle", "dropped"}
                    /\ \A u \in ShutdownThreads \ {s} : shutdown_pc'[u] = shutdown_pc[u]
                    /\ kills' = kills
                    /\ s \in Killers => s \in Killed /\ child_lock' = Free
                    /\ s \notin Killers => ~child /\ child_lock' = child_lock]_vars
    /\ [][(shutdown_pc[ShutdownThread] = "idle" /\ shutdown_pc'[ShutdownThread] = "drop") =>
            /\ ShutdownsInFlight = {}
            /\ shutdowns' = shutdowns /\ kills' = kills /\ child' = child]_vars
    /\ [][Dropping =>
            /\ shutdowns' = (IF shutdown_pc[ShutdownThread] # "dropped"
                                /\ shutdown_pc'[ShutdownThread] = "dropped"
                             THEN shutdowns + 1 ELSE shutdowns)
            /\ \A s \in ShutdownThreads \ {ShutdownThread} :
                    shutdown_pc[s] = "idle" /\ shutdown_pc'[s] = "idle"]_vars
    /\ [](shutdown_pc[ShutdownThread] = "dropped" =>
            ~child /\ kills = 1 /\ child_lock = Free)
    /\ [][shutdown_pc[ShutdownThread] = "dropped" =>
            UNCHANGED << shutdown_pc, shutdowns, kills, child, taskVars >>]_vars

\* C21 witness: shutdown() was called MaxShutdowns times, two of the calls
\* were in progress at once, while a request was written; the caller's
\* future was dropped, and then the client was dropped: its teardown was one
\* more call, and the child was killed once.
C21_Witness ==
    /\ shutdown_pc[ShutdownThread] = "dropped"
    /\ shutdowns = MaxShutdowns + 1 /\ kills = 1
    /\ concurrent = 2
    /\ pc["t1"] = "abandoned" /\ written["t1"] = 2

\* the threads that take the mutexes, and the mutexes
Threads == Tasks \cup {ReaderThread} \cup ShutdownThreads

Locks == {"child", "stdin", "pending"}

NoLock == "none"

LockHolder(l) ==
    CASE l = "child" -> child_lock
      [] l = "stdin" -> stdin_lock
      [] l = "pending" -> pending_lock

Holds(th) == { l \in Locks : LockHolder(l) = th }

\* the mutex at whose lock() a thread stands
Wants(th) ==
    IF th \in Tasks
    THEN CASE pc[th] = "alive_child" -> "child"
           [] pc[th] = "alive_stdin" -> "stdin"
           [] pc[th] = "register" -> "pending"
           [] pc[th] = "send" -> "stdin"
           [] pc[th] = "write_failed" -> "pending"
           [] OTHER -> NoLock
    ELSE IF th = ReaderThread
         THEN CASE reader_pc = "parsed" -> "pending"
                [] reader_pc = "closing" -> "stdin"
                [] OTHER -> NoLock
         ELSE IF shutdown_pc[th] \in {"called", "drop"} THEN "child" ELSE NoLock

\* the steps of a thread
ThreadStep(th) ==
    IF th \in Tasks THEN SendRequestByStep(th)
    ELSE IF th = ReaderThread THEN ReaderByStep
    ELSE Shutdown(th)

\* a caller inside a write to the child's input while the pipe is full: it
\* waits for the child to read
InFullPipeWrite(th) ==
    /\ th \in Tasks
    /\ pc[th] \in {"write_json", "write_newline"}
    /\ pipe = PipeOpen /\ PipeFree(wire) = 0

\* the thread that holds the mutex th is waiting for, or Free
WaitsFor(th) == IF Wants(th) = NoLock THEN Free ELSE LockHolder(Wants(th))

\* from `from`, following who waits for whom for at most n steps, one
\* arrives at `to`
RECURSIVE Reaches(_, _, _)
Reaches(from, to, n) ==
    /\ n > 0
    /\ WaitsFor(from) \in Threads
    /\ WaitsFor(from) = to \/ Reaches(WaitsFor(from), to, n - 1)

\* C25: a thread that stands at the lock() of a mutex can step exactly when
\* the mutex is free; a thread that holds a mutex and stands at no lock()
\* can step, unless it is inside a write to the child's input on a full
\* pipe, where it holds the stdin mutex alone, waits for no mutex and goes
\* on when the child reads; no thread waits, directly or through others,
\* for a mutex it holds itself or that is held by a thread waiting for it;
\* a caller holds the child mutex only inside is_alive, the stdin mutex only
\* inside the write block, the registry mutex only inside its sections, and
\* a caller that is suspended on its completion handle, or is outside
\* send_request, holds none.
C25_LockDisciplineDeadlockFree ==
    /\ \A th \in Threads :
            IF Wants(th) = NoLock
            THEN (Holds(th) # {} /\ ~InFullPipeWrite(th)) => ENABLED ThreadStep(th)
            ELSE ENABLED ThreadStep(th) <=> LockHolder(Wants(th)) = Free
    /\ \A t \in Tasks :
            InFullPipeWrite(t) =>
                /\ Holds(t) = {"stdin"} /\ Wants(t) = NoLock
                /\ ~ENABLED ThreadStep(t)
                /\ ENABLED ChildReads
    /\ \A th \in Threads : ~Reaches(th, th, Cardinality(Threads))
    /\ \A t \in Tasks :
            /\ child_lock = t <=> pc[t] = "alive_stdin"
            /\ stdin_lock = t <=> pc[t] \in Writing \cup {"io_remove"}
            /\ pending_lock = t <=> pc[t] \in {"register_locked", "io_remove"}
            /\ pc[t] \in {"idle", "await", "done"} => Holds(t) = {}
    /\ pending_lock = ReaderThread <=> reader_pc = "handling"
    /\ Holds(ReaderThread) \subseteq {"pending"}
    /\ \A s \in ShutdownThreads :
            /\ child_lock = s <=> shutdown_pc[s] \in {"killing", "killed"}
            /\ Holds(s) \subseteq {"child"}

\* C25 witness: every mutex is held and three threads wait in a chain: a
\* call of shutdown() stands at the child mutex, which t2 holds inside
\* is_alive; t2 waits for the stdin mutex, which t1 holds in the Err arm of
\* its write; t1 waits for the registry, which the reader holds while it
\* handles a response.
C25_Witness ==
    /\ pc["t1"] = "write_failed" /\ stdin_lock = "t1"
    /\ reader_pc = "handling" /\ pending_lock = ReaderThread
    /\ pc["t2"] = "alive_stdin" /\ child_lock = "t2"
    /\ shutdown_pc[ShutdownThread] = "called"
    /\ WaitsFor(ShutdownThread) = "t2"
    /\ WaitsFor("t2") = "t1" /\ WaitsFor("t1") = ReaderThread

\* C30 as claimed: a command that is invoked calls launch, and it ends only
\* by returning; while its sendMessage call is under way, its launch call
\* has returned, resolved or failed, and if launch had taken an id, that id
\* is lower than the one sendMessage takes; the command leaves launch only
\* when launch has returned, and then, whatever launch returned, it enters
\* the sendMessage call; it leaves sendMessage only when that call has
\* returned, and it then fails exactly if sendMessage failed, with the same
\* error.
C30_LaunchThenSendMessage ==
    /\ [][(cmd.pc \in {"idle", "done", "panicked"} /\ cmd'.pc # cmd.pc) =>
            cmd'.pc = "launch" /\ pc'[CmdTask] = "alive_child"]_vars
    /\ [](cmd.pc # "panicked")
    /\ [](cmd.pc = "send" =>
            /\ cmd.launch # NoOutcome
            /\ cmd.launch_id # NoId =>
                    /\ cmd.launch_id \in returned
                    /\ id[CmdTask] # NoId => id[CmdTask] > cmd.launch_id)
    /\ [](pc[CmdTask] \in Writing => CmdMethod \in {"launch", "sendMessage"})
    /\ [][(cmd.pc = "launch" /\ cmd'.pc # "launch") =>
            /\ pc[CmdTask] = "done" /\ outcome[CmdTask] # NoOutcome
            /\ cmd'.pc = "send" /\ cmd'.launch = outcome[CmdTask]
            /\ pc'[CmdTask] = "alive_child"]_vars
    /\ [][(cmd.pc = "send" /\ cmd'.pc # "send") =>
            /\ pc[CmdTask] = "done" /\ cmd'.pc = "done"
            /\ cmd'.result = (IF outcome[CmdTask].tag = "Err"
                              THEN outcome[CmdTask]
                              ELSE Ok(Unit))]_vars
    /\ [](cmd.pc = "done" =>
            /\ cmd.result.tag = "Err" <=> outcome[CmdTask].tag = "Err"
            /\ cmd.result.tag = "Err" => cmd.result = outcome[CmdTask]
            /\ cmd.result.tag # "Err" => cmd.result = Ok(Unit))

====
